---- MODULE Spec2Model ----
(***************************************************************************)
(* Verification model of the win_rate backtesting repository:              *)
(*   - SimulationEngine (optimization/utils/simulation_engine.py)          *)
(*   - ImprovedScoringAnalyzer (analyze_scoring_history_v3.py)             *)
(*   - PositionTracker / filter_duplicate_signals                          *)
(* Python floats are modelled as exact rationals <<n, d>> (d > 0, lowest   *)
(* terms); None is the empty tuple << >> and a present value x is <<x>>    *)
(* where a field may hold None.                                            *)
(***************************************************************************)
EXTENDS Integers, Sequences, FiniteSets, TLC

VARIABLES
    eng,    \* SimulationEngine.simulate_batch: its arguments, locals and result
    sim,    \* SimulationEngine.simulate_trade: the frame of the call in progress
    calc,   \* calculate_trade_result: the arguments and the outcomes returned
    rng,    \* the state of the process-wide generator of module random
    flt,    \* filter_duplicate_signals: its argument, tracker and result
    run,    \* ImprovedScoringAnalyzer.run: the locals of the batch loop
    db,     \* the tables the analyzer reads and writes
    ent,    \* get_entry_price: the entry bar and what the calls returned
    sweep,  \* simulate_trades.main with one worker: the signals still to do
    pool,   \* simulate_trades.main: the worker pool and the counts it returns
    simdb   \* optimization.selected_signals, candles_1m, simulation_results

vars == <<eng, sim, calc, rng, flt, run, db, ent, sweep, pool, simdb>>
engineVars == <<eng, sim>>
calcVars == <<calc, rng>>
filterVars == <<flt>>
runVars == <<run, db>>
entryVars == <<ent>>
poolVars == <<sweep, pool, simdb>>

(***************************************************************************)
(* Exact rational arithmetic standing for Python float arithmetic.         *)
(***************************************************************************)
Abs(x) == IF x < 0 THEN -x ELSE x

RECURSIVE GCD(_, _)
GCD(a, b) == IF b = 0 THEN a ELSE GCD(b, a % b)

Rat(n, d) ==
    LET g == GCD(Abs(n), Abs(d))
        s == IF d < 0 THEN -1 ELSE 1
    IN  <<(s * n) \div g, (s * d) \div g>>

R(i) == <<i, 1>>
RAdd(x, y) == Rat(x[1] * y[2] + y[1] * x[2], x[2] * y[2])
RSub(x, y) == Rat(x[1] * y[2] - y[1] * x[2], x[2] * y[2])
RMul(x, y) == Rat(x[1] * y[1], x[2] * y[2])
RDiv(x, y) == Rat(x[1] * y[2], x[2] * y[1])
RNeg(x) == <<-x[1], x[2]>>
RLt(x, y) == x[1] * y[2] < y[1] * x[2]
RLe(x, y) == x[1] * y[2] <= y[1] * x[2]
RMax(x, y) == IF RLt(x, y) THEN y ELSE x
RMin(x, y) == IF RLt(y, x) THEN y ELSE x

None == << >>
Some(x) == <<x>>

(***************************************************************************)
(* SimulationEngine: the graduated timeout checkpoints, in minutes held.   *)
(***************************************************************************)
BREAKEVEN_FROM == 1200
TIMEOUT_21H_AT == 1260
TIMEOUT_22H_AT == 1320
TIMEOUT_23H_AT == 1380
TIMEOUT_24H_AT == 1440
MIN_CANDLES == 100

(***************************************************************************)
(* Candle sequences.  A sequence of n one-minute candles is described by   *)
(* its length, the candle shape found everywhere but at one position, and  *)
(* the position and shape of that one candle; candles[i] is Candle(d, i)   *)
(* (1-based; the code's index idx is i - 1).                               *)
(***************************************************************************)
Shape(o, h, l, c) ==
    [open_price |-> o, high_price |-> h, low_price |-> l, close_price |-> c]

Candle(d, i) ==
    LET s == IF i = d.k THEN d.special ELSE d.base
    IN  [open_time |-> d.t0 + i - 1, open_price |-> s.open_price,
         high_price |-> s.high_price, low_price |-> s.low_price,
         close_price |-> s.close_price]

Flat == Shape(100, 100, 100, 100)
Up   == Shape(100, 102, 100, 101)
Down == Shape(100, 100, 99, 99)
Bases == {Flat, Up, Down}

Spike  == Shape(100, 110, 90, 100)
Jump   == Shape(102, 104, 103, 104)
Dip    == Shape(100, 100, 95, 96)
Profit == Shape(100, 101, 100, 101)
Specials == {Spike, Jump, Dip, Profit}

Extra == 1
Lens == {1, TIMEOUT_21H_AT - 1, TIMEOUT_21H_AT + Extra}
Positions == {2, BREAKEVEN_FROM + 30, TIMEOUT_21H_AT}

CandleSeqs ==
    {[n |-> n, t0 |-> 0, base |-> b, k |-> k, special |-> s] :
        n \in Lens, b \in Bases, k \in Positions, s \in Specials}

(***************************************************************************)
(* Parameter combinations (sl_pct, ts_activation_pct, ts_callback_pct),    *)
(* a part of the grid SL_RANGE x TS_ACTIVATION_RANGE x TS_CALLBACK_RANGE.  *)
(***************************************************************************)
ParamCombos ==
    { <<R(1), R(1), <<1, 2>>>>,
      <<R(3), R(2), R(1)>>,
      <<R(6), R(1), R(2)>> }

SignalTypes == {"LONG", "SHORT"}

(***************************************************************************)
(* SimulationEngine._empty_result                                          *)
(***************************************************************************)
empty_result ==
    [exit_type |-> "ERROR", exit_price |-> None, exit_time |-> None,
     pnl_pct |-> R(0), max_profit_pct |-> R(0), max_drawdown_pct |-> R(0),
     hold_duration_minutes |-> 0]

Outcome(type, price, time, pnl, max_profit, max_drawdown, held) ==
    [exit_type |-> type, exit_price |-> Some(price), exit_time |-> Some(time),
     pnl_pct |-> pnl, max_profit_pct |-> max_profit,
     max_drawdown_pct |-> max_drawdown, hold_duration_minutes |-> held]

\* (x - entry) / entry * 100, the P&L of price x for a LONG; mirrored for SHORT
PnlPct(signal_type, x, entry_price) ==
    IF signal_type = "LONG"
    THEN RMul(RDiv(RSub(x, entry_price), entry_price), R(100))
    ELSE RMul(RDiv(RSub(entry_price, x), entry_price), R(100))

\* entry * (1 - pct/100) for LONG, entry * (1 + pct/100) for SHORT
AdversePrice(signal_type, entry_price, pct) ==
    IF signal_type = "LONG"
    THEN RMul(entry_price, RSub(R(1), RDiv(pct, R(100))))
    ELSE RMul(entry_price, RAdd(R(1), RDiv(pct, R(100))))

(***************************************************************************)
(* SimulationEngine._check_timeout_exit: None, or the timeout outcome of   *)
(* the candle at index current_idx (0-based).                              *)
(***************************************************************************)
\* variant whose window opens one minute late
InBreakevenWindow_late(minutes_held) ==
    BREAKEVEN_FROM < minutes_held /\ minutes_held < TIMEOUT_21H_AT

\* variant whose window includes minute 1260
InBreakevenWindow_through(minutes_held) ==
    BREAKEVEN_FROM <= minutes_held /\ minutes_held <= TIMEOUT_21H_AT

\* hour 20-21: the breakeven window
InBreakevenWindow(minutes_held) ==
    BREAKEVEN_FROM <= minutes_held /\ minutes_held < TIMEOUT_21H_AT

check_timeout_exit(candles, entry_price, signal_type, current_idx, max_profit, max_drawdown) ==
    LET minutes_held == current_idx + 1
        current_candle == Candle(candles, current_idx + 1)
        current_price == R(current_candle.close_price)
        open_time == current_candle.open_time
        current_pnl == PnlPct(signal_type, current_price, entry_price)
        Forced(type, pct) ==
            Some(Outcome(type, AdversePrice(signal_type, entry_price, pct),
                         open_time, RNeg(pct), max_profit, max_drawdown,
                         minutes_held))
    IN  IF minutes_held < BREAKEVEN_FROM THEN None
        ELSE IF InBreakevenWindow(minutes_held)
        THEN IF RLt(R(0), current_pnl)
             THEN Some(Outcome("TIMEOUT_BREAKEVEN", entry_price, open_time,
                               R(0), max_profit, max_drawdown, minutes_held))
             ELSE None
        ELSE IF minutes_held = TIMEOUT_21H_AT THEN Forced("TIMEOUT_21H", R(1))
        ELSE IF minutes_held = TIMEOUT_22H_AT THEN Forced("TIMEOUT_22H", R(2))
        ELSE IF minutes_held = TIMEOUT_23H_AT THEN Forced("TIMEOUT_23H", R(3))
        ELSE IF minutes_held >= TIMEOUT_24H_AT
        THEN Some(Outcome("TIMEOUT_24H", current_price, open_time, current_pnl,
                          max_profit, max_drawdown, minutes_held))
        ELSE None

(***************************************************************************)
(* SimulationEngine.simulate_trade.  The frame of one call:                *)
(*   pc      "idle" (no call in progress), "loop" (about to process the    *)
(*           candle at index idx), "fallback" (the loop ran out of         *)
(*           candles), "returned" (result holds the return value)          *)
(*   result  None or Some(outcome); a call may return None                 *)
(***************************************************************************)
IdleFrame ==
    [pc |-> "idle", idx |-> 0, sl_pct |-> R(0), ts_activation_pct |-> R(0),
     ts_callback_pct |-> R(0), max_profit |-> R(0), max_drawdown |-> R(0),
     ts_activated |-> FALSE, ts_trigger_price |-> None, result |-> None]

EntryPrice(candles) == R(Candle(candles, 1).open_price)

\* the call's entry: the empty-candles guard and the tracking variables
simulate_trade_enter(candles, sl_pct, ts_activation_pct, ts_callback_pct) ==
    IF candles.n = 0
    THEN [IdleFrame EXCEPT !.pc = "returned", !.result = Some(empty_result),
                           !.sl_pct = sl_pct,
                           !.ts_activation_pct = ts_activation_pct,
                           !.ts_callback_pct = ts_callback_pct]
    ELSE [IdleFrame EXCEPT !.pc = "loop", !.sl_pct = sl_pct,
                           !.ts_activation_pct = ts_activation_pct,
                           !.ts_callback_pct = ts_callback_pct]

\* the initial trailing-stop trigger: entry adjusted by (activation - callback)
InitialTrigger(signal_type, entry_price, ts_activation_pct, ts_callback_pct) ==
    LET d == RDiv(RSub(ts_activation_pct, ts_callback_pct), R(100))
    IN  IF signal_type = "LONG"
        THEN RMul(entry_price, RAdd(R(1), d))
        ELSE RMul(entry_price, RSub(R(1), d))

\* variant that follows the candle's extreme without keeping the tighter one
TrailedTrigger_follow(signal_type, trigger, high, low, ts_callback_pct) ==
    IF signal_type = "LONG"
    THEN RMul(high, RSub(R(1), RDiv(ts_callback_pct, R(100))))
    ELSE RMul(low, RAdd(R(1), RDiv(ts_callback_pct, R(100))))

\* the trigger after trailing on this candle's extreme
TrailedTrigger(signal_type, trigger, high, low, ts_callback_pct) ==
    IF signal_type = "LONG"
    THEN RMax(trigger, RMul(high, RSub(R(1), RDiv(ts_callback_pct, R(100)))))
    ELSE RMin(trigger, RMul(low, RAdd(R(1), RDiv(ts_callback_pct, R(100)))))

\* has the candle crossed the trailing-stop trigger
TriggerCrossed(signal_type, trigger, high, low) ==
    IF signal_type = "LONG" THEN RLe(low, trigger) ELSE RLe(trigger, high)

\* variant that tests the trailing stop before the stop-loss
simulate_trade_body_ts_first(fr, candles, signal_type) ==
    LET candle == Candle(candles, fr.idx + 1)
        entry_price == EntryPrice(candles)
        high == R(candle.high_price)
        low == R(candle.low_price)
        open_time == candle.open_time
        high_pnl == IF signal_type = "LONG"
                    THEN PnlPct("LONG", high, entry_price)
                    ELSE PnlPct("SHORT", low, entry_price)
        low_pnl == IF signal_type = "LONG"
                   THEN PnlPct("LONG", low, entry_price)
                   ELSE PnlPct("SHORT", high, entry_price)
        max_profit == RMax(fr.max_profit, high_pnl)
        max_drawdown == RMin(fr.max_drawdown, low_pnl)
        Return(r) == [fr EXCEPT !.pc = "returned", !.result = r,
                                !.max_profit = max_profit,
                                !.max_drawdown = max_drawdown]
        arms == ~fr.ts_activated /\ RLe(fr.ts_activation_pct, high_pnl)
        ts_activated == fr.ts_activated \/ arms
        trigger == IF arms
                   THEN Some(InitialTrigger(signal_type, entry_price,
                                            fr.ts_activation_pct,
                                            fr.ts_callback_pct))
                   ELSE fr.ts_trigger_price
        trailed == IF ts_activated
                   THEN Some(TrailedTrigger(signal_type, trigger[1], high, low,
                                            fr.ts_callback_pct))
                   ELSE trigger
        timeout_result == check_timeout_exit(candles, entry_price, signal_type,
                                             fr.idx, max_profit, max_drawdown)
    IN  IF ts_activated /\ TriggerCrossed(signal_type, trigger[1], high, low)
        THEN [Return(Some(Outcome("TS", trigger[1], open_time,
                  PnlPct(signal_type, trigger[1], entry_price),
                  max_profit, max_drawdown, fr.idx + 1)))
              EXCEPT !.ts_activated = TRUE, !.ts_trigger_price = trigger]
        ELSE IF RLe(low_pnl, RNeg(fr.sl_pct))
        THEN Return(Some(Outcome("SL",
                 AdversePrice(signal_type, entry_price, fr.sl_pct), open_time,
                 RNeg(fr.sl_pct), max_profit, max_drawdown, fr.idx + 1)))
        ELSE IF timeout_result # None
        THEN [Return(timeout_result)
              EXCEPT !.ts_activated = ts_activated, !.ts_trigger_price = trailed]
        ELSE [fr EXCEPT !.idx = fr.idx + 1,
                        !.pc = IF fr.idx + 1 < candles.n THEN "loop" ELSE "fallback",
                        !.max_profit = max_profit,
                        !.max_drawdown = max_drawdown,
                        !.ts_activated = ts_activated,
                        !.ts_trigger_price = trailed]

\* variant that trails the trigger on the candle's extreme before testing it
simulate_trade_body_trail_first(fr, candles, signal_type) ==
    LET candle == Candle(candles, fr.idx + 1)
        entry_price == EntryPrice(candles)
        high == R(candle.high_price)
        low == R(candle.low_price)
        open_time == candle.open_time
        high_pnl == IF signal_type = "LONG"
                    THEN PnlPct("LONG", high, entry_price)
                    ELSE PnlPct("SHORT", low, entry_price)
        low_pnl == IF signal_type = "LONG"
                   THEN PnlPct("LONG", low, entry_price)
                   ELSE PnlPct("SHORT", high, entry_price)
        max_profit == RMax(fr.max_profit, high_pnl)
        max_drawdown == RMin(fr.max_drawdown, low_pnl)
        Return(r) == [fr EXCEPT !.pc = "returned", !.result = r,
                                !.max_profit = max_profit,
                                !.max_drawdown = max_drawdown]
        arms == ~fr.ts_activated /\ RLe(fr.ts_activation_pct, high_pnl)
        ts_activated == fr.ts_activated \/ arms
        trigger == IF arms
                   THEN Some(InitialTrigger(signal_type, entry_price,
                                            fr.ts_activation_pct,
                                            fr.ts_callback_pct))
                   ELSE fr.ts_trigger_price
        trailed == IF ts_activated
                   THEN Some(TrailedTrigger(signal_type, trigger[1], high, low,
                                            fr.ts_callback_pct))
                   ELSE trigger
        timeout_result == check_timeout_exit(candles, entry_price, signal_type,
                                             fr.idx, max_profit, max_drawdown)
    IN  IF RLe(low_pnl, RNeg(fr.sl_pct))
        THEN Return(Some(Outcome("SL",
                 AdversePrice(signal_type, entry_price, fr.sl_pct), open_time,
                 RNeg(fr.sl_pct), max_profit, max_drawdown, fr.idx + 1)))
        ELSE IF ts_activated /\ TriggerCrossed(signal_type, trailed[1], high, low)
        THEN [Return(Some(Outcome("TS", trailed[1], open_time,
                  PnlPct(signal_type, trailed[1], entry_price),
                  max_profit, max_drawdown, fr.idx + 1)))
              EXCEPT !.ts_activated = TRUE, !.ts_trigger_price = trailed]
        ELSE IF timeout_result # None
        THEN [Return(timeout_result)
              EXCEPT !.ts_activated = ts_activated, !.ts_trigger_price = trailed]
        ELSE [fr EXCEPT !.idx = fr.idx + 1,
                        !.pc = IF fr.idx + 1 < candles.n THEN "loop" ELSE "fallback",
                        !.max_profit = max_profit,
                        !.max_drawdown = max_drawdown,
                        !.ts_activated = ts_activated,
                        !.ts_trigger_price = trailed]

\* one iteration of the for loop over candles, for the candle at index fr.idx
simulate_trade_body(fr, candles, signal_type) ==
    LET candle == Candle(candles, fr.idx + 1)
        entry_price == EntryPrice(candles)
        high == R(candle.high_price)
        low == R(candle.low_price)
        open_time == candle.open_time
        high_pnl == IF signal_type = "LONG"
                    THEN PnlPct("LONG", high, entry_price)
                    ELSE PnlPct("SHORT", low, entry_price)
        low_pnl == IF signal_type = "LONG"
                   THEN PnlPct("LONG", low, entry_price)
                   ELSE PnlPct("SHORT", high, entry_price)
        max_profit == RMax(fr.max_profit, high_pnl)
        max_drawdown == RMin(fr.max_drawdown, low_pnl)
        Return(r) == [fr EXCEPT !.pc = "returned", !.result = r,
                                !.max_profit = max_profit,
                                !.max_drawdown = max_drawdown]
        arms == ~fr.ts_activated /\ RLe(fr.ts_activation_pct, high_pnl)
        ts_activated == fr.ts_activated \/ arms
        trigger == IF arms
                   THEN Some(InitialTrigger(signal_type, entry_price,
                                            fr.ts_activation_pct,
                                            fr.ts_callback_pct))
                   ELSE fr.ts_trigger_price
        trailed == IF ts_activated
                   THEN Some(TrailedTrigger(signal_type, trigger[1], high, low,
                                            fr.ts_callback_pct))
                   ELSE trigger
        timeout_result == check_timeout_exit(candles, entry_price, signal_type,
                                             fr.idx, max_profit, max_drawdown)
    IN  IF RLe(low_pnl, RNeg(fr.sl_pct))
        THEN Return(Some(Outcome("SL",
                 AdversePrice(signal_type, entry_price, fr.sl_pct), open_time,
                 RNeg(fr.sl_pct), max_profit, max_drawdown, fr.idx + 1)))
        ELSE IF ts_activated /\ TriggerCrossed(signal_type, trigger[1], high, low)
        THEN [Return(Some(Outcome("TS", trigger[1], open_time,
                  PnlPct(signal_type, trigger[1], entry_price),
                  max_profit, max_drawdown, fr.idx + 1)))
              EXCEPT !.ts_activated = TRUE, !.ts_trigger_price = trigger]
        ELSE IF timeout_result # None
        THEN [Return(timeout_result)
              EXCEPT !.ts_activated = ts_activated, !.ts_trigger_price = trailed]
        ELSE [fr EXCEPT !.idx = fr.idx + 1,
                        !.pc = IF fr.idx + 1 < candles.n THEN "loop" ELSE "fallback",
                        !.max_profit = max_profit,
                        !.max_drawdown = max_drawdown,
                        !.ts_activated = ts_activated,
                        !.ts_trigger_price = trailed]

\* after the loop: the timeout check of the last candle is the return value
simulate_trade_after_loop(fr, candles, signal_type) ==
    [fr EXCEPT !.pc = "returned",
               !.result = check_timeout_exit(candles, EntryPrice(candles),
                              signal_type, candles.n - 1,
                              fr.max_profit, fr.max_drawdown)]

(***************************************************************************)
(* SimulationEngine.simulate_batch, driven by simulate_signal.             *)
(*   eng.pc  "signal" (simulate_signal has loaded the candles), "batch"    *)
(*           (in the loop over param_combinations, at position pos),       *)
(*           "skipped" (simulate_signal returned 0 before simulating),     *)
(*           "done" (simulate_batch returned eng.results)                  *)
(***************************************************************************)
ResultRow(signal_id, combo, result) ==
    [signal_id |-> signal_id, sl_pct |-> combo[1],
     ts_activation_pct |-> combo[2], ts_callback_pct |-> combo[3],
     exit_type |-> result.exit_type, exit_price |-> result.exit_price,
     exit_time |-> result.exit_time, pnl_pct |-> result.pnl_pct,
     max_profit_pct |-> result.max_profit_pct,
     max_drawdown_pct |-> result.max_drawdown_pct,
     hold_duration_minutes |-> result.hold_duration_minutes]

\* the loop body of simulate_batch once simulate_trade has returned `result`
simulate_batch_append(e, result) ==
    IF result = None
    THEN [e EXCEPT !.pos = e.pos + 1]
    ELSE [e EXCEPT !.pos = e.pos + 1,
                   !.results = Append(e.results,
                       ResultRow(e.signal_id, e.param_combinations[e.pos],
                                 result[1])),
                   !.simulations_run = e.simulations_run + 1]

\* simulate_signal: too few candles, no simulation
simulate_signal_guard(candles) == candles.n < MIN_CANDLES

simulate_signal ==
    /\ eng.pc = "signal"
    /\ eng' = [eng EXCEPT !.pc = IF simulate_signal_guard(eng.candles)
                                 THEN "skipped" ELSE "batch"]
    /\ UNCHANGED <<sim, calcVars, filterVars, runVars, entryVars, poolVars>>

simulate_batch_call ==
    /\ eng.pc = "batch"
    /\ sim.pc = "idle"
    /\ eng.pos <= Len(eng.param_combinations)
    /\ LET combo == eng.param_combinations[eng.pos]
       IN  sim' = simulate_trade_enter(eng.candles, combo[1], combo[2], combo[3])
    /\ UNCHANGED <<eng, calcVars, filterVars, runVars, entryVars, poolVars>>

simulate_trade_candle ==
    /\ sim.pc = "loop"
    /\ sim' = simulate_trade_body(sim, eng.candles, eng.signal_type)
    /\ UNCHANGED <<eng, calcVars, filterVars, runVars, entryVars, poolVars>>

simulate_trade_fallback ==
    /\ sim.pc = "fallback"
    /\ sim' = simulate_trade_after_loop(sim, eng.candles, eng.signal_type)
    /\ UNCHANGED <<eng, calcVars, filterVars, runVars, entryVars, poolVars>>

simulate_batch_collect ==
    /\ eng.pc = "batch"
    /\ sim.pc = "returned"
    /\ eng' = simulate_batch_append(eng, sim.result)
    /\ sim' = [sim EXCEPT !.pc = "idle"]
    /\ UNCHANGED <<calcVars, filterVars, runVars, entryVars, poolVars>>

simulate_batch_return ==
    /\ eng.pc = "batch"
    /\ sim.pc = "idle"
    /\ eng.pos > Len(eng.param_combinations)
    /\ eng' = [eng EXCEPT !.pc = "done"]
    /\ UNCHANGED <<sim, calcVars, filterVars, runVars, entryVars, poolVars>>

(***************************************************************************)
(* ImprovedScoringAnalyzer: AnalysisConfig defaults.                       *)
(***************************************************************************)
AnalysisConfig ==
    [tp_percent |-> 3, sl_percent |-> 3, position_size |-> 100,
     leverage |-> 10, analysis_hours |-> 3]

\* the configurations analysed: the default, and a tighter take-profit
Configs == {AnalysisConfig, [AnalysisConfig EXCEPT !.tp_percent = 2]}

(***************************************************************************)
(* The process-wide generator of module random.  Its state is the seed it  *)
(* was last seeded with and the number of draws made since; the draws of   *)
(* random.choice([True, False]) after random.seed(s) are tabulated from    *)
(* CPython for the seeds get_signal_seed yields.                           *)
(***************************************************************************)
SignalIds == 1..2

\* int.from_bytes(sha256("scoring_history_id_<id>")[:8], 'big') % 2**32
get_signal_seed(scoring_history_id) ==
    CASE scoring_history_id = 1 -> 1980475674
      [] scoring_history_id = 2 -> 313870944
      [] scoring_history_id = 3 -> 1156091437

Seeds == {get_signal_seed(i) : i \in SignalIds}

\* the first draws of random.choice([True, False]) after random.seed(seed)
ChoiceStream(seed) ==
    CASE seed = 1980475674 -> <<FALSE, TRUE, TRUE, TRUE>>
      [] seed = 313870944  -> <<TRUE, TRUE, FALSE, FALSE>>
      [] seed = 1156091437 -> <<FALSE, TRUE, TRUE, FALSE>>

random_seed(seed) == [seed |-> seed, draws |-> 0]
random_choice(g) == ChoiceStream(g.seed)[(g.draws % 4) + 1]
random_advance(g) == [g EXCEPT !.draws = g.draws + 1]

(***************************************************************************)
(* ImprovedScoringAnalyzer.calculate_trade_result                          *)
(* A history candle is [timestamp, high_price, low_price, close_price];    *)
(* timestamps are in minutes.                                              *)
(***************************************************************************)
HCandle(t, h, l, c) ==
    [timestamp |-> t, high_price |-> h, low_price |-> l, close_price |-> c]

\* variant without random.seed: the call works with the generator as it is
calc_seeded_not(g, scoring_history_id) == g

\* the generator the call works with: seeded from the signal id on entry
calc_seeded(g, scoring_history_id) == random_seed(get_signal_seed(scoring_history_id))

tp_price_of(direction, entry_price, config) ==
    IF direction = "LONG"
    THEN RMul(entry_price, RAdd(R(1), RDiv(R(config.tp_percent), R(100))))
    ELSE RMul(entry_price, RSub(R(1), RDiv(R(config.tp_percent), R(100))))

sl_price_of(direction, entry_price, config) ==
    IF direction = "LONG"
    THEN RMul(entry_price, RSub(R(1), RDiv(R(config.sl_percent), R(100))))
    ELSE RMul(entry_price, RAdd(R(1), RDiv(R(config.sl_percent), R(100))))

\* variant with strict comparisons
sl_hit_of_strict(direction, candle, sl_price) ==
    IF direction = "LONG"
    THEN RLt(R(candle.low_price), sl_price)
    ELSE RLt(sl_price, R(candle.high_price))

sl_hit_of(direction, candle, sl_price) ==
    IF direction = "LONG"
    THEN RLe(R(candle.low_price), sl_price)
    ELSE RLe(sl_price, R(candle.high_price))

tp_hit_of(direction, candle, tp_price) ==
    IF direction = "LONG"
    THEN RLe(tp_price, R(candle.high_price))
    ELSE RLe(R(candle.low_price), tp_price)

\* the locals of the call before the loop
calc_locals(entry_price, g) ==
    [is_closed |-> FALSE, close_reason |-> None, close_price |-> None,
     close_time |-> None, hours_to_close |-> None, is_win |-> None,
     absolute_max_price |-> entry_price, absolute_min_price |-> entry_price,
     time_to_max |-> R(0), time_to_min |-> R(0),
     running_best_price |-> entry_price, max_drawdown_from_peak |-> R(0),
     rng |-> g]

\* closing at the stop-loss / take-profit level on this candle
close_at(st, reason, is_win, price, current_time, hours_passed) ==
    [st EXCEPT !.is_closed = TRUE, !.close_reason = Some(reason),
               !.is_win = Some(is_win), !.close_price = Some(price),
               !.close_time = Some(current_time),
               !.hours_to_close = Some(hours_passed)]

\* variant that closes at tp_price on either side of the coin
calc_tie_break_mixed(st, candle, sl_price, tp_price, hours_passed) ==
    LET hit_sl_first == random_choice(st.rng)
    IN  [(IF hit_sl_first
          THEN close_at(st, "stop_loss", FALSE, tp_price, candle.timestamp,
                        hours_passed)
          ELSE close_at(st, "take_profit", TRUE, tp_price, candle.timestamp,
                        hours_passed))
         EXCEPT !.rng = random_advance(st.rng)]

\* both levels breached by one candle: the coin flip
calc_tie_break(st, candle, sl_price, tp_price, hours_passed) ==
    LET hit_sl_first == random_choice(st.rng)
    IN  [(IF hit_sl_first
          THEN close_at(st, "stop_loss", FALSE, sl_price, candle.timestamp,
                        hours_passed)
          ELSE close_at(st, "take_profit", TRUE, tp_price, candle.timestamp,
                        hours_passed))
         EXCEPT !.rng = random_advance(st.rng)]

\* "if not is_closed": the stop-loss / take-profit test of one candle
calc_check_close(st, direction, candle, sl_price, tp_price, hours_passed) ==
    LET sl_hit == sl_hit_of(direction, candle, sl_price)
        tp_hit == tp_hit_of(direction, candle, tp_price)
    IN  IF st.is_closed THEN st
        ELSE IF sl_hit /\ tp_hit
        THEN calc_tie_break(st, candle, sl_price, tp_price, hours_passed)
        ELSE IF sl_hit
        THEN close_at(st, "stop_loss", FALSE, sl_price, candle.timestamp,
                      hours_passed)
        ELSE IF tp_hit
        THEN close_at(st, "take_profit", TRUE, tp_price, candle.timestamp,
                      hours_passed)
        ELSE st

\* variant that keeps the drawdown of the latest candle, not the maximum
calc_drawdown_last(st, direction, candle) ==
    LET high == R(candle.high_price)
        low == R(candle.low_price)
        best == IF direction = "LONG"
                THEN RMax(st.running_best_price, high)
                ELSE RMin(st.running_best_price, low)
    IN  [st EXCEPT !.running_best_price = best,
                   !.max_drawdown_from_peak =
                       IF direction = "LONG"
                       THEN RMul(RDiv(RSub(best, low), best), R(100))
                       ELSE RMul(RDiv(RSub(high, best), best), R(100))]

\* variant without the "running_best_price > 0" guard
calc_drawdown_unguarded(st, direction, candle) ==
    LET high == R(candle.high_price)
        low == R(candle.low_price)
        best == IF direction = "LONG"
                THEN RMax(st.running_best_price, high)
                ELSE RMin(st.running_best_price, low)
        current_drawdown ==
            IF direction = "LONG"
            THEN RMul(RDiv(RSub(best, low), best), R(100))
            ELSE RMul(RDiv(RSub(high, best), best), R(100))
    IN  [st EXCEPT !.running_best_price = best,
                   !.max_drawdown_from_peak =
                       IF RLt(@, current_drawdown) THEN current_drawdown ELSE @]

\* the running best price and the drawdown from it, updated on every candle
calc_drawdown(st, direction, candle) ==
    LET high == R(candle.high_price)
        low == R(candle.low_price)
        best == IF direction = "LONG"
                THEN (IF RLt(st.running_best_price, high) THEN high
                      ELSE st.running_best_price)
                ELSE (IF RLt(low, st.running_best_price) THEN low
                      ELSE st.running_best_price)
        current_drawdown ==
            IF direction = "LONG"
            THEN RMul(RDiv(RSub(best, low), best), R(100))
            ELSE RMul(RDiv(RSub(high, best), best), R(100))
    IN  [st EXCEPT !.running_best_price = best,
                   !.max_drawdown_from_peak =
                       IF RLt(R(0), best) /\ RLt(@, current_drawdown)
                       THEN current_drawdown ELSE @]

\* the absolute extremes and the hours at which they were reached
calc_extremes(st, candle, hours_passed) ==
    LET high == R(candle.high_price)
        low == R(candle.low_price)
    IN  [st EXCEPT
           !.absolute_max_price = IF RLt(@, high) THEN high ELSE @,
           !.time_to_max = IF RLt(st.absolute_max_price, high)
                           THEN hours_passed ELSE @,
           !.absolute_min_price = IF RLt(low, @) THEN low ELSE @,
           !.time_to_min = IF RLt(low, st.absolute_min_price)
                           THEN hours_passed ELSE @]

\* one iteration of the loop over history while the position is open
calc_candle(st, direction, candle, sl_price, tp_price, actual_entry_time) ==
    LET hours_passed == Rat(candle.timestamp - actual_entry_time, 60)
    IN  calc_drawdown(
            calc_check_close(calc_extremes(st, candle, hours_passed),
                             direction, candle, sl_price, tp_price,
                             hours_passed),
            direction, candle)

\* one iteration once the position is closed: the loop does not break, the
\* extremes and the drawdown go on moving
calc_candle_closed(st, direction, candle, actual_entry_time) ==
    calc_drawdown(
        calc_extremes(st, candle,
                      Rat(candle.timestamp - actual_entry_time, 60)),
        direction, candle)

RECURSIVE calc_loop(_, _, _, _, _, _, _)
calc_loop(st, direction, history, sl_price, tp_price, actual_entry_time, i) ==
    IF i > Len(history) THEN st
    ELSE IF st.is_closed
    THEN calc_loop(calc_candle_closed(st, direction, history[i],
                                      actual_entry_time),
                   direction, history, sl_price, tp_price, actual_entry_time,
                   i + 1)
    ELSE calc_loop(calc_candle(st, direction, history[i], sl_price, tp_price,
                               actual_entry_time),
                   direction, history, sl_price, tp_price, actual_entry_time,
                   i + 1)

\* "if not is_closed" after the loop: the timeout close at the last candle
calc_timeout(st, history, config) ==
    IF st.is_closed THEN st
    ELSE [st EXCEPT !.is_closed = TRUE, !.close_reason = Some("timeout"),
                    !.is_win = None,
                    !.close_price = Some(R(history[Len(history)].close_price)),
                    !.close_time = Some(history[Len(history)].timestamp),
                    !.hours_to_close = Some(R(config.analysis_hours))]

Usd(percent, config) ==
    RMul(R(config.position_size * config.leverage), RDiv(percent, R(100)))

\* the TradeResult built from the locals
trade_result(st, direction, entry_price, config) ==
    LET max_potential_profit_percent ==
            IF direction = "LONG"
            THEN RMul(RDiv(RSub(st.absolute_max_price, entry_price), entry_price), R(100))
            ELSE RMul(RDiv(RSub(entry_price, st.absolute_min_price), entry_price), R(100))
        final_pnl_percent == PnlPct(direction, st.close_price[1], entry_price)
    IN  [direction |-> direction, entry_price |-> entry_price,
         best_price |-> IF direction = "LONG" THEN st.absolute_max_price
                        ELSE st.absolute_min_price,
         worst_price |-> IF direction = "LONG" THEN st.absolute_min_price
                         ELSE st.absolute_max_price,
         close_price |-> st.close_price[1], is_closed |-> st.is_closed,
         close_reason |-> st.close_reason[1], is_win |-> st.is_win,
         close_time |-> st.close_time[1],
         hours_to_close |-> st.hours_to_close[1],
         pnl_percent |-> final_pnl_percent,
         pnl_usd |-> Usd(final_pnl_percent, config),
         max_potential_profit_percent |-> max_potential_profit_percent,
         max_potential_profit_usd |-> Usd(max_potential_profit_percent, config),
         max_drawdown_percent |-> st.max_drawdown_from_peak,
         max_drawdown_usd |-> Usd(st.max_drawdown_from_peak, config),
         absolute_max_price |-> st.absolute_max_price,
         absolute_min_price |-> st.absolute_min_price,
         time_to_max_hours |-> st.time_to_max,
         time_to_min_hours |-> st.time_to_min]

\* the call: the TradeResult returned and the generator state it leaves
calculate_trade_result(config, direction, entry_price, history, actual_entry_time, scoring_history_id, g) ==
    LET st == calc_timeout(
                  calc_loop(calc_locals(entry_price,
                                        calc_seeded(g, scoring_history_id)),
                            direction, history,
                            sl_price_of(direction, entry_price, config),
                            tp_price_of(direction, entry_price, config),
                            actual_entry_time, 1),
                  history, config)
    IN  [result |-> trade_result(st, direction, entry_price, config),
         rng |-> st.rng]

(***************************************************************************)
(* Calls of calculate_trade_result for one signal, with other users of the *)
(* generator in between.  calc.seen[k] holds every TradeResult returned    *)
(* for the call key k = <<direction, config>>; calc.again records that a   *)
(* key was called again after another signal had reseeded the generator.   *)
(***************************************************************************)
Directions == {"LONG", "SHORT"}
CallKeys == Directions \X Configs

SLOnly == [high_price |-> 101, low_price |-> 97, close_price |-> 98]
TPOnly == [high_price |-> 103, low_price |-> 99, close_price |-> 102]
Quiet  == [high_price |-> 101, low_price |-> 99, close_price |-> 100]
Edge   == [high_price |-> 103, low_price |-> 97, close_price |-> 101]
HShapes == {Edge, SLOnly, TPOnly, Quiet}

MaxHist == 2
CandleMinutes == 5

\* the 5-minute candles from the entry time on, one shape per candle
HistoryOf(shapes, entry_time) ==
    [i \in 1..Len(shapes) |->
        HCandle(entry_time + (i - 1) * CandleMinutes, shapes[i].high_price,
                shapes[i].low_price, shapes[i].close_price)]

Histories ==
    {HistoryOf(sh, 0) : sh \in UNION {[1..m -> HShapes] : m \in 1..MaxHist}}

MaxDraws == 1


IdleCalc ==
    [pc |-> "off", scoring_history_id |-> 0, entry_price |-> R(0),
     actual_entry_time |-> 0, history |-> << >>,
     seen |-> [k \in CallKeys |-> {}], again |-> FALSE]

\* one call for the signal, in either direction and configuration
calc_call ==
    /\ calc.pc = "on"
    /\ \E k \in CallKeys :
          \E r \in {calculate_trade_result(k[2], k[1], calc.entry_price,
                        calc.history, calc.actual_entry_time,
                        calc.scoring_history_id, rng)} :
              /\ calc' = [calc EXCEPT
                    !.seen[k] = @ \cup {r.result},
                    !.again = @ \/ (calc.seen[k] # {} /\ rng.seed #
                                   get_signal_seed(calc.scoring_history_id))]
              /\ rng' = r.rng
    /\ UNCHANGED <<engineVars, filterVars, runVars, entryVars, poolVars>>

\* another signal is processed in between
calc_other_signal ==
    /\ calc.pc = "on"
    /\ \E id \in SignalIds \ {calc.scoring_history_id} :
          rng' = calculate_trade_result(AnalysisConfig, "LONG",
                     calc.entry_price, calc.history, calc.actual_entry_time,
                     id, rng).rng
    /\ UNCHANGED <<calc, engineVars, filterVars, runVars, entryVars, poolVars>>

\* other code draws from the generator in between
other_draw ==
    /\ calc.pc = "on"
    /\ rng.draws < MaxDraws
    /\ rng' = random_advance(rng)
    /\ UNCHANGED <<calc, engineVars, filterVars, runVars, entryVars, poolVars>>

InitCalc ==
    /\ \E id \in SignalIds, h \in Histories :
          calc = [IdleCalc EXCEPT !.pc = "on", !.scoring_history_id = id,
                                  !.entry_price = R(100), !.history = h]
    /\ \E s \in Seeds : rng = random_seed(s)

NextCalc == calc_call \/ calc_other_signal \/ other_draw

(***************************************************************************)
(* PositionTracker and filter_duplicate_signals.  Times are in hours.      *)
(***************************************************************************)
POSITION_HOURS == 24

PositionTracker ==
    [active_positions |-> << >>, position_history |-> << >>,
     filtered_count |-> 0]

\* variant with the comparison inverted
is_position_active_inverted(tracker, pair_symbol, entry_time) ==
    /\ pair_symbol \in DOMAIN tracker.active_positions
    /\ tracker.active_positions[pair_symbol] < entry_time

\* variant that also blocks an entry at the tracked exit time itself
is_position_active_inclusive(tracker, pair_symbol, entry_time) ==
    /\ pair_symbol \in DOMAIN tracker.active_positions
    /\ entry_time <= tracker.active_positions[pair_symbol]

is_position_active(tracker, pair_symbol, entry_time) ==
    /\ pair_symbol \in DOMAIN tracker.active_positions
    /\ entry_time < tracker.active_positions[pair_symbol]

\* exit_time is None at the filter's call: the window is entry + 24h
add_position(tracker, pair_symbol, entry_time) ==
    LET exit_time == entry_time + POSITION_HOURS
    IN  [tracker EXCEPT
           !.active_positions =
               [p \in DOMAIN @ \cup {pair_symbol} |->
                   IF p = pair_symbol THEN exit_time ELSE @[p]],
           !.position_history =
               Append(@, [pair_symbol |-> pair_symbol,
                          entry_time |-> entry_time,
                          exit_time |-> exit_time])]

\* sorted(signals, key=entry_time): stable, by insertion from the left
RECURSIVE sorted_insert(_, _)
sorted_insert(sorted, s) ==
    IF sorted = << >> THEN <<s>>
    ELSE IF s.entry_time < sorted[Len(sorted)].entry_time
    THEN Append(sorted_insert(SubSeq(sorted, 1, Len(sorted) - 1), s),
                sorted[Len(sorted)])
    ELSE Append(sorted, s)

RECURSIVE sorted_by_entry_time(_)
sorted_by_entry_time(signals) ==
    IF signals = << >> THEN << >>
    ELSE sorted_insert(
             sorted_by_entry_time(SubSeq(signals, 1, Len(signals) - 1)),
             signals[Len(signals)])

\* the loop over signals_sorted, from index i on
RECURSIVE filter_loop(_, _, _, _)
filter_loop(signals_sorted, i, tracker, filtered) ==
    IF i > Len(signals_sorted)
    THEN [filtered |-> filtered, tracker |-> tracker]
    ELSE LET signal == signals_sorted[i]
             pair == signal.pair_symbol
             entry == signal.entry_time
         IN  IF is_position_active(tracker, pair, entry)
             THEN filter_loop(signals_sorted, i + 1,
                      [tracker EXCEPT !.filtered_count = @ + 1], filtered)
             ELSE filter_loop(signals_sorted, i + 1,
                      add_position(tracker, pair, entry),
                      Append(filtered, signal))

\* variant that scans the list in the order it was given
filter_duplicate_signals_of_as_given(signals) ==
    IF signals = << >>
    THEN [filtered |-> signals, tracker |-> PositionTracker]
    ELSE filter_loop(signals, 1, PositionTracker, << >>)

filter_duplicate_signals_of(signals) ==
    IF signals = << >>
    THEN [filtered |-> signals, tracker |-> PositionTracker]
    ELSE filter_loop(sorted_by_entry_time(signals), 1, PositionTracker, << >>)

Pairs == {"BTCUSDT", "ETHUSDT"}
EntryTimes == {0, 10, POSITION_HOURS, POSITION_HOURS + 6}
MaxSignals == 3
\* the rows loaded: each with its row id, in any order of entry time
SignalLists ==
    UNION {{[i \in 1..n |-> [id |-> i, pair_symbol |-> f[i][1],
                             entry_time |-> f[i][2]]] :
               f \in [1..n -> Pairs \X EntryTimes]} : n \in 0..MaxSignals}

IdleFilter ==
    [pc |-> "off", signals |-> << >>, filtered |-> << >>,
     tracker |-> PositionTracker]

filter_duplicate_signals ==
    /\ flt.pc = "call"
    /\ \E r \in {filter_duplicate_signals_of(flt.signals)} :
           flt' = [flt EXCEPT !.pc = "done", !.filtered = r.filtered,
                              !.tracker = r.tracker]
    /\ UNCHANGED <<engineVars, calcVars, runVars, entryVars, poolVars>>

(***************************************************************************)
(* ImprovedScoringAnalyzer.run: the batch loop over unprocessed signals.   *)
(* db.scoring_history maps a signal id to the market data its queries      *)
(* return (signals are numbered in timestamp order); db.results is the     *)
(* table web.scoring_history_results_v2.                                   *)
(***************************************************************************)
Bar(high, low) == Some([high_price |-> high, low_price |-> low, timestamp |-> 15])
NoBar == None
GoodBar == Bar(101, 99)
InvertedBar == Bar(99, 101)
WideBar == Bar(160, 100)
ZeroBar == Bar(0, 0)

\* variant tolerating a loss of half of the candles
min_candles_half(config) == (config.analysis_hours * 12 * 50) \div 100

\* int(analysis_hours * 12 * 0.75)
min_candles_of(config) == (config.analysis_hours * 12 * 75) \div 100

\* what the two market-data queries return for a signal: the entry bar, the
\* number of history candles, and whether a candle holds a NULL price
MarketData ==
    {[bar |-> b, n |-> min_candles_of(AnalysisConfig), null_price |-> FALSE] :
        b \in {NoBar, GoodBar, InvertedBar, WideBar, ZeroBar}}
    \cup {[bar |-> GoodBar, n |-> n, null_price |-> FALSE] :
        n \in {0, min_candles_of(AnalysisConfig) - 1}}
    \cup {[bar |-> GoodBar, n |-> min_candles_of(AnalysisConfig),
           null_price |-> TRUE]}

Swing == [high_price |-> 104, low_price |-> 96, close_price |-> 100]

history_of(d) ==
    HistoryOf([i \in 1..d.n |-> IF i = 2 THEN Swing ELSE Quiet],
              d.bar[1].timestamp)

\* variant that rejects a spread of exactly 50% too
anomalous_spread_inclusive(high_price, low_price) ==
    RLe(Rat(1, 2), RDiv(RSub(high_price, low_price), low_price))

\* spread_percent > 0.5
anomalous_spread(high_price, low_price) ==
    RLt(Rat(1, 2), RDiv(RSub(high_price, low_price), low_price))

\* variant with the two directions' fills exchanged
entry_fill_exchanged(direction) ==
    IF direction = "LONG" THEN Rat(1, 4) ELSE Rat(3, 4)

\* the part of the bar's range added to its low: 0.75 for LONG, 0.25 for SHORT
entry_fill(direction) ==
    IF direction = "LONG" THEN Rat(3, 4) ELSE Rat(1, 4)

get_entry_price(bar, direction, query_fails) ==
    IF query_fails THEN None
    ELSE IF bar = None THEN None
    ELSE LET high_price == R(bar[1].high_price)
             low_price == R(bar[1].low_price)
         IN  IF RLe(high_price, R(0)) \/ RLe(low_price, R(0)) THEN None
             ELSE IF RLt(high_price, low_price) THEN None
             ELSE IF anomalous_spread(high_price, low_price) THEN None
             ELSE Some([entry_price |->
                            RAdd(low_price,
                                 RMul(RSub(high_price, low_price),
                                      entry_fill(direction))),
                        entry_time |-> bar[1].timestamp])

create_no_data_result(scoring_history_id, direction, reason) ==
    [scoring_history_id |-> scoring_history_id, signal_type |-> direction,
     entry_price |-> None, close_price |-> None, is_closed |-> FALSE,
     close_reason |-> reason, is_win |-> None, pnl_percent |-> R(0)]

\* long_data / short_data: the row built from a TradeResult
result_data(scoring_history_id, r) ==
    [scoring_history_id |-> scoring_history_id, signal_type |-> r.direction,
     entry_price |-> Some(r.entry_price), close_price |-> Some(r.close_price),
     is_closed |-> r.is_closed, close_reason |-> r.close_reason,
     is_win |-> r.is_win, pnl_percent |-> r.pnl_percent]

\* variant that handles database errors only
analyze_except_data_raises(exc) == exc = "psycopg.Error"

\* the except clauses: TRUE when the exception is logged and (None, None)
\* returned, FALSE when it is re-raised
analyze_except(exc) ==
    exc \in {"psycopg.Error", "KeyError", "ValueError", "TypeError"}

Returned2(long_result, short_result, g) ==
    [long |-> long_result, short |-> short_result, exc |-> "", raised |-> FALSE,
     rng |-> g]

Raised(exc, g) ==
    [long |-> None, short |-> None, exc |-> exc,
     raised |-> ~analyze_except(exc), rng |-> g]

\* faults: entry_query (an entry query raises), history_query ("" no fault,
\* else the exception the history query raises)
analyze_signal_both_directions(scoring_history_id, d, faults, config, g) ==
    LET entry_data_long == get_entry_price(d.bar, "LONG", faults.entry_query)
        entry_data_short == get_entry_price(d.bar, "SHORT", faults.entry_query)
        history == history_of(d)
        long_result ==
            calculate_trade_result(config, "LONG",
                entry_data_long[1].entry_price, history,
                entry_data_long[1].entry_time, scoring_history_id, g)
        short_result ==
            calculate_trade_result(config, "SHORT",
                entry_data_short[1].entry_price, history,
                entry_data_short[1].entry_time, scoring_history_id,
                long_result.rng)
    IN  IF entry_data_long = None \/ entry_data_short = None
        THEN Returned2(
                 Some(create_no_data_result(scoring_history_id, "LONG",
                                            "no_entry_price")),
                 Some(create_no_data_result(scoring_history_id, "SHORT",
                                            "no_entry_price")), g)
        ELSE IF faults.history_query # "" THEN Raised(faults.history_query, g)
        ELSE IF d.n = 0 \/ d.n < min_candles_of(config)
        THEN Returned2(
                 Some(create_no_data_result(scoring_history_id, "LONG",
                                            "insufficient_history")),
                 Some(create_no_data_result(scoring_history_id, "SHORT",
                                            "insufficient_history")), g)
        ELSE IF d.null_price THEN Raised("TypeError", calc_seeded(g, scoring_history_id))
        ELSE Returned2(
                 Some(result_data(scoring_history_id, long_result.result)),
                 Some(result_data(scoring_history_id, short_result.result)),
                 short_result.rng)

\* INSERT ... ON CONFLICT (scoring_history_id, signal_type) DO UPDATE
insert_result(table, row) ==
    IF \E x \in table : /\ x.scoring_history_id = row.scoring_history_id
                        /\ x.signal_type = row.signal_type
    THEN {IF /\ x.scoring_history_id = row.scoring_history_id
             /\ x.signal_type = row.signal_type
          THEN [x EXCEPT !.pnl_percent = row.pnl_percent] ELSE x : x \in table}
    ELSE table \cup {row}

\* save_results: a commit per row; the rows whose index is in fails raise on
\* insert, are rolled back and dropped
RECURSIVE save_results(_, _, _, _)
save_results(table, results, fails, i) ==
    IF i > Len(results) THEN table
    ELSE save_results(IF i \in fails THEN table
                      ELSE insert_result(table, results[i]),
                      results, fails, i + 1)

\* the unprocessed signals: no row of any direction, oldest first, LIMIT n
RECURSIVE oldest_first(_, _)
oldest_first(ids, n) ==
    IF ids = {} \/ n = 0 THEN << >>
    ELSE LET first == CHOOSE i \in ids : \A j \in ids : i <= j
         IN  <<first>> \o oldest_first(ids \ {first}, n - 1)

get_unprocessed_signals(tables, batch_size) ==
    oldest_first({id \in DOMAIN tables.scoring_history :
                     ~\E shr \in tables.results : shr.scoring_history_id = id},
                 batch_size)

BatchSize == 2
SaveBatchSize == 3
MaxFaults == 1
HistoryIds == 1..3

IdleRun ==
    [pc |-> "off", signals |-> << >>, i |-> 0, results |-> << >>,
     fetched |-> {}, last |-> None, faults_left |-> 0]

IdleDb == [scoring_history |-> << >>, results |-> {}]

\* main: a run of the script against the tables as they are
main ==
    /\ run.pc \in {"start", "done", "aborted"}
    /\ run' = [IdleRun EXCEPT !.pc = "fetch", !.faults_left = run.faults_left]
    /\ UNCHANGED <<db, rng, calc, engineVars, filterVars, entryVars, poolVars>>

\* the head of the while loop: the next batch, or the end of the run
run_next_batch ==
    /\ run.pc = "fetch"
    /\ LET signals == get_unprocessed_signals(db, BatchSize)
       IN  run' = IF signals = << >>
                  THEN [run EXCEPT !.pc = "done"]
                  ELSE [run EXCEPT !.pc = "loop", !.signals = signals,
                                   !.i = 1, !.results = << >>,
                                   !.fetched = @ \cup {signals[j] :
                                                        j \in 1..Len(signals)}]
    /\ UNCHANGED <<db, rng, calc, engineVars, filterVars, entryVars, poolVars>>

FaultChoices(left) ==
    {f \in [entry_query : BOOLEAN,
            history_query : {"", "psycopg.Error", "Exception"}] :
        (IF f.entry_query THEN 1 ELSE 0)
        + (IF f.history_query # "" THEN 1 ELSE 0) <= left}

FaultCost(f) ==
    (IF f.entry_query THEN 1 ELSE 0) + (IF f.history_query # "" THEN 1 ELSE 0)

\* one iteration of the loop over the batch
run_signal ==
    /\ run.pc = "loop"
    /\ run.i <= Len(run.signals)
    /\ \E f \in FaultChoices(run.faults_left) :
        \E a \in {analyze_signal_both_directions(
                      run.signals[run.i], db.scoring_history[run.signals[run.i]],
                      f, AnalysisConfig, rng)} :
          LET id == run.signals[run.i]
              last == Some([scoring_history_id |-> id, long |-> a.long,
                            short |-> a.short, exc |-> a.exc, faults |-> f])
              results == IF a.long # None /\ a.short # None
                         THEN run.results \o <<a.long[1], a.short[1]>>
                         ELSE run.results
              left == run.faults_left - FaultCost(f)
          IN  /\ rng' = a.rng
              /\ IF a.raised
                 THEN /\ run' = [run EXCEPT !.pc = "aborted", !.last = last,
                                            !.faults_left = left]
                      /\ db' = db
                 ELSE IF Len(results) >= SaveBatchSize
                 THEN \E fails \in SUBSET (1..Len(results)) :
                         /\ Cardinality(fails) <= left
                         /\ db' = [db EXCEPT !.results =
                                      save_results(@, results, fails, 1)]
                         /\ run' = [run EXCEPT
                                      !.i = @ + 1, !.results = << >>,
                                      !.last = last,
                                      !.faults_left = left - Cardinality(fails)]
                 ELSE /\ run' = [run EXCEPT !.i = @ + 1, !.results = results,
                                            !.last = last,
                                            !.faults_left = left]
                      /\ db' = db
    /\ UNCHANGED <<calc, engineVars, filterVars, entryVars, poolVars>>

\* after the loop over the batch: the rest of the results is saved
run_batch_end ==
    /\ run.pc = "loop"
    /\ run.i > Len(run.signals)
    /\ \E fails \in SUBSET (1..Len(run.results)) :
          /\ Cardinality(fails) <= run.faults_left
          /\ db' = [db EXCEPT !.results =
                       save_results(@, run.results, fails, 1)]
          /\ run' = [run EXCEPT !.pc = "fetch", !.results = << >>,
                                !.faults_left = @ - Cardinality(fails)]
    /\ UNCHANGED <<rng, calc, engineVars, filterVars, entryVars, poolVars>>

NextRun == main \/ run_next_batch \/ run_signal \/ run_batch_end


(***************************************************************************)
(* The tables of the optimization pipeline.  selected_signals holds the    *)
(* rows in table order; candles_1m maps a signal id to the candles that    *)
(* load_candles_for_signal returns for it; simulation_results is a set of  *)
(* rows, unique on (signal_id, sl_pct, ts_activation_pct, ts_callback_pct).*)
(***************************************************************************)
IdleSimDb ==
    [selected_signals |-> << >>, candles_1m |-> << >>,
     simulation_results |-> {}]

\* variant whose unique key leaves out signal_id
SameKey_params(a, b) ==
    /\ a.sl_pct = b.sl_pct
    /\ a.ts_activation_pct = b.ts_activation_pct
    /\ a.ts_callback_pct = b.ts_callback_pct

SameKey(a, b) ==
    /\ a.signal_id = b.signal_id /\ a.sl_pct = b.sl_pct
    /\ a.ts_activation_pct = b.ts_activation_pct
    /\ a.ts_callback_pct = b.ts_callback_pct

\* INSERT ... ON CONFLICT (signal_id, sl_pct, ts_activation_pct,
\* ts_callback_pct) DO NOTHING for every row of data, then one commit
RECURSIVE bulk_insert_simulations(_, _, _)
bulk_insert_simulations(table, data, i) ==
    IF i > Len(data) THEN table
    ELSE bulk_insert_simulations(
             IF \E x \in table : SameKey(x, data[i]) THEN table
             ELSE table \cup {data[i]},
             data, i + 1)

HasResults(tables, signal_id) ==
    \E sr \in tables.simulation_results : sr.signal_id = signal_id

\* the selected signals with no simulation row, ORDER BY entry_time
load_signals_to_simulate(tables) ==
    sorted_by_entry_time(
        SelectSeq(tables.selected_signals,
                  LAMBDA ss : ~HasResults(tables, ss.signal_id)))

\* main up to the pool: load, then filter when anything was loaded
main_signals(tables) ==
    LET signals == load_signals_to_simulate(tables)
    IN  IF signals # << >> THEN filter_duplicate_signals_of(signals).filtered
        ELSE signals

IdleSweep ==
    [pc |-> "off", param_combos |-> << >>, signals |-> << >>, i |-> 0,
     total_results |-> 0]

\* get_entry_price called for one signal: the bar its query finds (None when
\* there is no row) and the calls made, each with its direction, whether the
\* query raised, and the value returned
IdleEntry == [pc |-> "off", bar |-> None, calls |-> {}]

\* the pool of main: the worker processes, the filtered signals (the tasks),
\* the next task to hand out, the sum of the counts returned, the number of
\* runs of the script so far, and the signals whose bulk insert raises
Workers == {"w1", "w2"}

IdleWorker == [pc |-> "idle", task |-> 0, count |-> 0]

IdlePool ==
    [pc |-> "off", runs |-> 0, param_combos |-> << >>, signals |-> << >>,
     next |-> 0, workers |-> [w \in Workers |-> IdleWorker],
     total_results |-> 0, insert_fails |-> {}]

MaxCombos == 2
ComboLists ==
    UNION {[1..m -> ParamCombos] : m \in 0..MaxCombos}

SweepCandleSeqs ==
    {[n |-> n, t0 |-> 0, base |-> b, k |-> 2, special |-> s] :
        n \in {MIN_CANDLES - 1, MIN_CANDLES, MIN_CANDLES + Extra},
        b \in Bases, s \in {Spike, Jump}}

NewEngine(pc, signal_type, candles, combos) ==
    [pc |-> pc, signal_id |-> 1, signal_type |-> signal_type,
     candles |-> candles, param_combinations |-> combos, pos |-> 1,
     results |-> << >>, simulations_run |-> 0]

\* one simulate_trade call on any candle sequence
InitTrade ==
    /\ \E t \in SignalTypes, c \in CandleSeqs, p \in ParamCombos :
          eng = NewEngine("batch", t, c, <<p>>)
    /\ sim = IdleFrame
    /\ calc = IdleCalc
    /\ rng = random_seed(get_signal_seed(1))
    /\ flt = IdleFilter /\ run = IdleRun /\ db = IdleDb
    /\ ent = IdleEntry /\ sweep = IdleSweep /\ pool = IdlePool /\ simdb = IdleSimDb

\* the sweep of one signal over a list of parameter combinations
InitSweep ==
    /\ \E t \in SignalTypes, c \in SweepCandleSeqs, ps \in ComboLists :
          eng = NewEngine("signal", t, c, ps)
    /\ sim = IdleFrame
    /\ calc = IdleCalc
    /\ rng = random_seed(get_signal_seed(1))
    /\ flt = IdleFilter /\ run = IdleRun /\ db = IdleDb
    /\ ent = IdleEntry /\ sweep = IdleSweep /\ pool = IdlePool /\ simdb = IdleSimDb

Init == InitTrade \/ InitSweep

Next ==
    \/ simulate_signal
    \/ simulate_batch_call
    \/ simulate_trade_candle
    \/ simulate_trade_fallback
    \/ simulate_batch_collect
    \/ simulate_batch_return

Spec == Init /\ [][Next]_vars

IdleEngine ==
    NewEngine("off", "LONG",
              [n |-> 0, t0 |-> 0, base |-> Flat, k |-> 0, special |-> Flat],
              << >>)

\* calculate_trade_result alone
InitAnalyzer ==
    /\ InitCalc
    /\ eng = IdleEngine
    /\ sim = IdleFrame
    /\ flt = IdleFilter /\ run = IdleRun /\ db = IdleDb
    /\ ent = IdleEntry /\ sweep = IdleSweep /\ pool = IdlePool /\ simdb = IdleSimDb

SpecCalc == InitAnalyzer /\ [][NextCalc]_vars

\* calculate_trade_result on entries below, inside and above the candles
EntryPrices == {R(96), R(100), R(104)}

InitDrawdown ==
    /\ \E e \in EntryPrices, h \in Histories :
          calc = [IdleCalc EXCEPT !.pc = "on", !.scoring_history_id = 1,
                                  !.entry_price = e, !.history = h]
    /\ rng = random_seed(get_signal_seed(1))
    /\ eng = IdleEngine /\ sim = IdleFrame
    /\ flt = IdleFilter /\ run = IdleRun /\ db = IdleDb
    /\ ent = IdleEntry /\ sweep = IdleSweep /\ pool = IdlePool /\ simdb = IdleSimDb

SpecDrawdown == InitDrawdown /\ [][calc_call]_vars

\* calculate_trade_result on histories in which a price falls to zero or
\* below
Crash == [high_price |-> 101, low_price |-> 0, close_price |-> 1]
Below == [high_price |-> 99, low_price |-> -1, close_price |-> 50]
GuardShapes == {Quiet, Crash, Below}

InitGuard ==
    /\ \E sh \in UNION {[1..m -> GuardShapes] : m \in 1..MaxHist} :
          calc = [IdleCalc EXCEPT !.pc = "on", !.scoring_history_id = 1,
                                  !.entry_price = R(100),
                                  !.history = HistoryOf(sh, 0)]
    /\ rng = random_seed(get_signal_seed(1))
    /\ eng = IdleEngine /\ sim = IdleFrame
    /\ flt = IdleFilter /\ run = IdleRun /\ db = IdleDb
    /\ ent = IdleEntry /\ sweep = IdleSweep /\ pool = IdlePool /\ simdb = IdleSimDb

SpecGuard == InitGuard /\ [][calc_call]_vars

\* get_entry_price on any bar
BarPrices == {-1, 0, 100, 149, 150, 151}
BarTimes == {15, 20}
EntryBars ==
    {None} \cup {Some([high_price |-> h, low_price |-> l, timestamp |-> t]) :
                    h \in BarPrices, l \in BarPrices, t \in BarTimes}

entry_price_call ==
    /\ ent.pc = "on"
    /\ \E direction \in Directions, query_fails \in BOOLEAN :
          ent' = [ent EXCEPT !.calls = @ \cup
                    {[direction |-> direction, query_fails |-> query_fails,
                      result |-> get_entry_price(ent.bar, direction,
                                                 query_fails)]}]
    /\ UNCHANGED <<engineVars, calcVars, filterVars, runVars, poolVars>>

InitEntry ==
    /\ \E bar \in EntryBars : ent = [IdleEntry EXCEPT !.pc = "on", !.bar = bar]
    /\ eng = IdleEngine /\ sim = IdleFrame /\ calc = IdleCalc
    /\ rng = random_seed(get_signal_seed(1))
    /\ flt = IdleFilter /\ run = IdleRun /\ db = IdleDb
    /\ sweep = IdleSweep /\ pool = IdlePool /\ simdb = IdleSimDb

SpecEntry == InitEntry /\ [][entry_price_call]_vars

\* both exit simulators: calculate_trade_result, and the sweep of simulate_trade
SpecExit == (InitAnalyzer \/ InitSweep) /\ [][NextCalc \/ Next]_vars

\* filter_duplicate_signals on any list of loaded signals
InitFilter ==
    /\ \E signals \in SignalLists :
          flt = [IdleFilter EXCEPT !.pc = "call", !.signals = signals]
    /\ eng = IdleEngine /\ sim = IdleFrame /\ calc = IdleCalc
    /\ rng = random_seed(get_signal_seed(1))
    /\ run = IdleRun /\ db = IdleDb
    /\ ent = IdleEntry /\ sweep = IdleSweep /\ pool = IdlePool /\ simdb = IdleSimDb

SpecFilter == InitFilter /\ [][filter_duplicate_signals]_vars

\* runs of the analyzer over a scoring_history table and an empty results table
InitRun ==
    /\ \E data \in [HistoryIds -> MarketData] :
          db = [scoring_history |-> data, results |-> {}]
    /\ run = [IdleRun EXCEPT !.pc = "start", !.faults_left = MaxFaults]
    /\ rng = random_seed(get_signal_seed(1))
    /\ eng = IdleEngine /\ sim = IdleFrame /\ calc = IdleCalc
    /\ flt = IdleFilter
    /\ ent = IdleEntry /\ sweep = IdleSweep /\ pool = IdlePool /\ simdb = IdleSimDb

SpecRun == InitRun /\ [][NextRun]_vars

\* signals without an entry bar, with too short a history, or with a NULL
\* price in a history candle; the database itself does not fail, so what
\* fails for a signal fails on every attempt
FairMarketData ==
    {d \in MarketData :
        \/ d.bar = NoBar
        \/ d.n = min_candles_of(AnalysisConfig) - 1
        \/ d.null_price}

InitRunFair ==
    /\ \E data \in [HistoryIds -> FairMarketData] :
          db = [scoring_history |-> data, results |-> {}]
    /\ run = [IdleRun EXCEPT !.pc = "start", !.faults_left = 0]
    /\ rng = random_seed(get_signal_seed(1))
    /\ eng = IdleEngine /\ sim = IdleFrame /\ calc = IdleCalc
    /\ flt = IdleFilter
    /\ ent = IdleEntry /\ sweep = IdleSweep /\ pool = IdlePool /\ simdb = IdleSimDb

\* the script is one sequential process: whenever it has a next step it
\* takes it
SpecRunFair == InitRunFair /\ [][NextRun]_vars /\ WF_vars(NextRun)

(***************************************************************************)
(* simulate_trades.main with a pool of one worker: the signals are         *)
(* simulated one after another, candle by candle, and the rows of each are *)
(* inserted before the next begins.  The database does not fail here.      *)
(***************************************************************************)
sweep_main ==
    /\ sweep.pc = "start"
    /\ sweep' = [sweep EXCEPT !.pc = "pool", !.signals = main_signals(simdb),
                              !.i = 1, !.total_results = 0]
    /\ UNCHANGED <<eng, sim, simdb, pool, calcVars, filterVars, runVars, entryVars>>

\* the worker takes the next signal and loads its candles
sweep_simulate_signal ==
    /\ sweep.pc = "pool"
    /\ eng.pc = "off"
    /\ sweep.i <= Len(sweep.signals)
    /\ LET signal == sweep.signals[sweep.i]
       IN  eng' = [NewEngine("signal", signal.signal_type,
                             simdb.candles_1m[signal.signal_id],
                             sweep.param_combos)
                   EXCEPT !.signal_id = signal.signal_id]
    /\ UNCHANGED <<sim, sweep, simdb, pool, calcVars, filterVars, runVars, entryVars>>

\* the worker inserts the rows of the signal; main adds up the count
sweep_insert ==
    /\ sweep.pc = "pool"
    /\ eng.pc \in {"done", "skipped"}
    /\ simdb' = [simdb EXCEPT !.simulation_results =
                    bulk_insert_simulations(@, eng.results, 1)]
    /\ sweep' = [sweep EXCEPT !.i = @ + 1,
                              !.total_results = @ + Len(eng.results)]
    /\ eng' = IdleEngine
    /\ UNCHANGED <<sim, pool, calcVars, filterVars, runVars, entryVars>>

\* the pool is exhausted
sweep_finish ==
    /\ sweep.pc = "pool"
    /\ eng.pc = "off"
    /\ sweep.i > Len(sweep.signals)
    /\ sweep' = [sweep EXCEPT !.pc = "finished"]
    /\ UNCHANGED <<eng, sim, simdb, pool, calcVars, filterVars, runVars, entryVars>>

\* a day of one-minute candles and more, shorter loads, quiet and moving
\* markets, a move inside the breakeven window and one at hour 22, and a
\* rise followed by a fall at once
TimeoutCandles ==
    << [n |-> MIN_CANDLES - 1, t0 |-> 0, base |-> Flat, k |-> 2, special |-> Flat],
       [n |-> TIMEOUT_21H_AT - 1, t0 |-> 0, base |-> Flat, k |-> 2, special |-> Flat],
       [n |-> TIMEOUT_24H_AT, t0 |-> 0, base |-> Flat, k |-> 2, special |-> Flat],
       [n |-> TIMEOUT_24H_AT + Extra, t0 |-> 0, base |-> Down,
        k |-> TIMEOUT_22H_AT, special |-> Dip],
       [n |-> TIMEOUT_24H_AT, t0 |-> 0, base |-> Flat,
        k |-> BREAKEVEN_FROM + 30, special |-> Jump],
       [n |-> TIMEOUT_24H_AT, t0 |-> 0, base |-> Up, k |-> TIMEOUT_23H_AT,
        special |-> Spike],
       [n |-> MIN_CANDLES, t0 |-> 0, base |-> Up, k |-> 2, special |-> Dip] >>

\* one signal per candle sequence, of one pair, a day apart
TimeoutSignals(signal_type) ==
    [i \in 1..Len(TimeoutCandles) |->
        [signal_id |-> i, pair_symbol |-> "BTCUSDT",
         entry_time |-> (i - 1) * POSITION_HOURS, signal_type |-> signal_type]]

InitTimeout ==
    /\ \E t \in SignalTypes, p \in ParamCombos :
          /\ simdb = [selected_signals |-> TimeoutSignals(t),
                      candles_1m |-> TimeoutCandles,
                      simulation_results |-> {}]
          /\ sweep = [IdleSweep EXCEPT !.pc = "start", !.param_combos = <<p>>]
    /\ eng = IdleEngine /\ sim = IdleFrame /\ calc = IdleCalc
    /\ rng = random_seed(get_signal_seed(1))
    /\ flt = IdleFilter /\ run = IdleRun /\ db = IdleDb
    /\ ent = IdleEntry /\ pool = IdlePool

NextTimeout ==
    \/ sweep_main
    \/ sweep_simulate_signal
    \/ sweep_insert
    \/ sweep_finish
    \/ simulate_signal
    \/ simulate_batch_call
    \/ simulate_trade_candle
    \/ simulate_trade_fallback
    \/ simulate_batch_collect
    \/ simulate_batch_return

SpecTimeout == InitTimeout /\ [][NextTimeout]_vars

(***************************************************************************)
(* SimulationEngine.simulate_trade and simulate_batch as functions: the    *)
(* loop bodies above, iterated to the return.                              *)
(***************************************************************************)
RECURSIVE simulate_trade_run(_, _, _)
simulate_trade_run(fr, candles, signal_type) ==
    IF fr.pc = "loop"
    THEN simulate_trade_run(simulate_trade_body(fr, candles, signal_type),
                            candles, signal_type)
    ELSE IF fr.pc = "fallback"
    THEN simulate_trade_after_loop(fr, candles, signal_type)
    ELSE fr

simulate_trade(candles, signal_type, sl_pct, ts_activation_pct, ts_callback_pct) ==
    simulate_trade_run(
        simulate_trade_enter(candles, sl_pct, ts_activation_pct,
                             ts_callback_pct),
        candles, signal_type).result

RECURSIVE simulate_batch_loop(_)
simulate_batch_loop(e) ==
    IF e.pos > Len(e.param_combinations) THEN e
    ELSE simulate_batch_loop(
             simulate_batch_append(e,
                 simulate_trade(e.candles, e.signal_type,
                                e.param_combinations[e.pos][1],
                                e.param_combinations[e.pos][2],
                                e.param_combinations[e.pos][3])))

simulate_batch(signal, candles, param_combinations) ==
    simulate_batch_loop(
        [NewEngine("batch", signal.signal_type, candles, param_combinations)
         EXCEPT !.signal_id = signal.signal_id]).results

(***************************************************************************)
(* simulate_trades.main with its pool of worker processes.  Each worker    *)
(* has its own connection and engine; imap_unordered hands the tasks out   *)
(* in order to whichever worker is free and yields the counts as they      *)
(* come.  The script is run again once it has finished.                    *)
(***************************************************************************)
MaxRuns == 2

\* main up to the pool
pool_main ==
    /\ pool.pc \in {"start", "done"}
    /\ pool.runs < MaxRuns
    /\ pool' = [pool EXCEPT !.pc = "pool", !.runs = @ + 1,
                            !.signals = main_signals(simdb), !.next = 1,
                            !.total_results = 0]
    /\ UNCHANGED <<simdb, sweep, engineVars, calcVars, filterVars, runVars, entryVars>>

\* simulate_signal up to the candle check: the worker takes the next task,
\* connects and loads the candles
worker_load(w) ==
    /\ pool.pc = "pool"
    /\ pool.workers[w].pc = "idle"
    /\ pool.next <= Len(pool.signals)
    /\ LET signal == pool.signals[pool.next]
           candles == simdb.candles_1m[signal.signal_id]
       IN  pool' = [pool EXCEPT
                      !.next = @ + 1,
                      !.workers[w] =
                          [pc |-> IF simulate_signal_guard(candles)
                                  THEN "returned" ELSE "loaded",
                           task |-> pool.next, count |-> 0]]
    /\ UNCHANGED <<simdb, sweep, engineVars, calcVars, filterVars, runVars, entryVars>>

\* simulate_signal from the simulation on: the rows are inserted in one
\* transaction; an insert that raises leaves no row and returns 0
worker_insert(w) ==
    /\ pool.workers[w].pc = "loaded"
    /\ LET signal == pool.signals[pool.workers[w].task]
       IN  \E results \in {simulate_batch(signal,
                                simdb.candles_1m[signal.signal_id],
                                pool.param_combos)} :
             IF results # << >> /\ signal.signal_id \in pool.insert_fails
             THEN /\ pool' = [pool EXCEPT !.workers[w].pc = "returned",
                                          !.workers[w].count = 0]
                  /\ simdb' = simdb
             ELSE /\ pool' = [pool EXCEPT !.workers[w].pc = "returned",
                                          !.workers[w].count = Len(results)]
                  /\ simdb' = [simdb EXCEPT !.simulation_results =
                                  bulk_insert_simulations(@, results, 1)]
    /\ UNCHANGED <<sweep, engineVars, calcVars, filterVars, runVars, entryVars>>

\* main receives the count of a finished task
pool_collect(w) ==
    /\ pool.workers[w].pc = "returned"
    /\ pool' = [pool EXCEPT !.total_results = @ + pool.workers[w].count,
                            !.workers[w] = IdleWorker]
    /\ UNCHANGED <<simdb, sweep, engineVars, calcVars, filterVars, runVars, entryVars>>

\* every task was handed out and every count received
pool_finish ==
    /\ pool.pc = "pool"
    /\ pool.next > Len(pool.signals)
    /\ \A w \in Workers : pool.workers[w].pc = "idle"
    /\ pool' = [pool EXCEPT !.pc = "done"]
    /\ UNCHANGED <<simdb, sweep, engineVars, calcVars, filterVars, runVars, entryVars>>

PoolCombos == << <<R(1), R(1), <<1, 2>>>>, <<R(3), R(2), R(1)>> >>

\* too few candles; a rise that trips the trailing stop at once
ShortLoad == [n |-> MIN_CANDLES - 1, t0 |-> 0, base |-> Flat, k |-> 2, special |-> Flat]
SpikeLoad == [n |-> MIN_CANDLES, t0 |-> 0, base |-> Up, k |-> 2, special |-> Spike]

PoolSignalIds == 1..3
PoolTimes == {0, 10, POSITION_HOURS}

\* three selected signals, the first of BTCUSDT at hour 0; at most one of
\* them has too few candles or a failing insert
InitPool ==
    /\ \E pt \in [PoolSignalIds -> Pairs \X PoolTimes],
          odd \in PoolSignalIds \cup {0},
          kind \in {"short", "fails"} :
          /\ pt[1] = <<"BTCUSDT", 0>>
          /\ odd = 0 => kind = "short"
          /\ simdb = [selected_signals |->
                          [i \in PoolSignalIds |->
                              [signal_id |-> i, pair_symbol |-> pt[i][1],
                               entry_time |-> pt[i][2],
                               signal_type |-> "LONG"]],
                      candles_1m |->
                          [i \in PoolSignalIds |->
                              IF i = odd /\ kind = "short" THEN ShortLoad
                              ELSE SpikeLoad],
                      simulation_results |-> {}]
          /\ pool = [IdlePool EXCEPT
                        !.pc = "start", !.param_combos = PoolCombos,
                        !.insert_fails = IF kind = "fails" THEN {odd} ELSE {}]
    /\ eng = IdleEngine /\ sim = IdleFrame /\ calc = IdleCalc
    /\ rng = random_seed(get_signal_seed(1))
    /\ flt = IdleFilter /\ run = IdleRun /\ db = IdleDb
    /\ ent = IdleEntry /\ sweep = IdleSweep

NextPool ==
    \/ pool_main
    \/ \E w \in Workers : worker_load(w)
    \/ \E w \in Workers : worker_insert(w)
    \/ \E w \in Workers : pool_collect(w)
    \/ pool_finish

SpecPool == InitPool /\ [][NextPool]_vars

(***************************************************************************)
(* Claims about SimulationEngine                                           *)
(***************************************************************************)
Returned == sim.pc = "returned"
Result == sim.result[1]

TerminalExitTypes ==
    {"SL", "TS", "TIMEOUT_BREAKEVEN", "TIMEOUT_21H", "TIMEOUT_22H",
     "TIMEOUT_23H", "TIMEOUT_24H", "TIMEOUT_FORCED"}

\* C1: every simulate_trade call on a non-empty candle sequence returns an
\* outcome with a terminal exit reason, never no result.
C1_AlwaysTerminalOutcome ==
    (Returned /\ eng.candles.n > 0)
        => (sim.result # None /\ Result.exit_type \in TerminalExitTypes)

\* C3: simulate_batch returns one row per combination, the i-th row carrying
\* the signal id and the i-th combination.
C3_OneRowPerCombination ==
    eng.pc = "done" =>
        /\ Len(eng.results) = Len(eng.param_combinations)
        /\ \A i \in 1..Len(eng.results) :
              /\ eng.results[i].signal_id = eng.signal_id
              /\ <<eng.results[i].sl_pct, eng.results[i].ts_activation_pct,
                   eng.results[i].ts_callback_pct>> = eng.param_combinations[i]

\* the candle about to be processed, and what it does to the open position
CurCandle == Candle(eng.candles, sim.idx + 1)
CurEntry == R(Candle(eng.candles, 1).open_price)
StopPrice ==
    IF eng.signal_type = "LONG"
    THEN RMul(CurEntry, RDiv(RSub(R(100), sim.sl_pct), R(100)))
    ELSE RMul(CurEntry, RDiv(RAdd(R(100), sim.sl_pct), R(100)))
BreachesStop ==
    IF eng.signal_type = "LONG"
    THEN RLe(R(CurCandle.low_price), StopPrice)
    ELSE RLe(StopPrice, R(CurCandle.high_price))
\* the best excursion of the candle reaches the activation percentage
ReachesActivation ==
    IF eng.signal_type = "LONG"
    THEN RLe(RMul(CurEntry, RAdd(R(100), sim.ts_activation_pct)),
             RMul(R(CurCandle.high_price), R(100)))
    ELSE RLe(RMul(R(CurCandle.low_price), R(100)),
             RMul(CurEntry, RSub(R(100), sim.ts_activation_pct)))
ArmedOnCandle == sim.ts_activated \/ ReachesActivation
\* the trigger price in force when the candle is tested against it
TriggerInForce ==
    IF sim.ts_activated THEN sim.ts_trigger_price[1]
    ELSE IF eng.signal_type = "LONG"
    THEN RDiv(RMul(CurEntry, RSub(RAdd(R(100), sim.ts_activation_pct),
                                  sim.ts_callback_pct)), R(100))
    ELSE RDiv(RMul(CurEntry, RAdd(RSub(R(100), sim.ts_activation_pct),
                                  sim.ts_callback_pct)), R(100))
HitsTrailingStop ==
    /\ ArmedOnCandle
    /\ IF eng.signal_type = "LONG"
       THEN RLe(R(CurCandle.low_price), TriggerInForce)
       ELSE RLe(TriggerInForce, R(CurCandle.high_price))
CloseProfitable ==
    IF eng.signal_type = "LONG"
    THEN RLt(CurEntry, R(CurCandle.close_price))
    ELSE RLt(R(CurCandle.close_price), CurEntry)

\* C10: a position open on a candle with 1200 <= minutes held < 1260 that hits
\* neither stop-loss nor trailing-stop there and closes in profit exits on
\* that candle: TIMEOUT_BREAKEVEN at the entry price with pnl 0, and the loop
\* goes no further.
C10_BreakevenStep ==
    (/\ sim.pc = "loop"
     /\ BREAKEVEN_FROM <= sim.idx + 1 /\ sim.idx + 1 < TIMEOUT_21H_AT
     /\ ~BreachesStop
     /\ ~HitsTrailingStop
     /\ CloseProfitable)
    =>
    (/\ sim'.pc = "returned"
     /\ sim'.idx = sim.idx
     /\ sim'.result # None
     /\ sim'.result[1].exit_type = "TIMEOUT_BREAKEVEN"
     /\ sim'.result[1].exit_price = Some(CurEntry)
     /\ sim'.result[1].pnl_pct = R(0)
     /\ sim'.result[1].exit_time = Some(CurCandle.open_time)
     /\ sim'.result[1].hold_duration_minutes = sim.idx + 1)

C10_Breakeven == [][C10_BreakevenStep]_vars

\* a breakeven exit on a candle later than the first of the window
C10_Witness ==
    /\ Returned /\ sim.result # None
    /\ Result.exit_type = "TIMEOUT_BREAKEVEN"
    /\ Result.hold_duration_minutes > BREAKEVEN_FROM

TimeoutExits == {"TIMEOUT_21H", "TIMEOUT_22H", "TIMEOUT_23H", "TIMEOUT_24H"}

\* C11: the graduated timeout policy closes a position open at minute 1260
\* at -1% (TIMEOUT_21H), at 1320 at -2% (TIMEOUT_22H), at 1380 at -3%
\* (TIMEOUT_23H) and at 1440 at the last close (TIMEOUT_24H), and each of the
\* four exits occurs for some candle sequence: once the sweep over the
\* signals has finished, the rows saved show every one of the four.
C11_GraduatedTimeouts ==
    /\ \A sr \in simdb.simulation_results :
          /\ sr.exit_type = "TIMEOUT_21H" =>
                sr.hold_duration_minutes = TIMEOUT_21H_AT /\ sr.pnl_pct = R(-1)
          /\ sr.exit_type = "TIMEOUT_22H" =>
                sr.hold_duration_minutes = TIMEOUT_22H_AT /\ sr.pnl_pct = R(-2)
          /\ sr.exit_type = "TIMEOUT_23H" =>
                sr.hold_duration_minutes = TIMEOUT_23H_AT /\ sr.pnl_pct = R(-3)
          /\ sr.exit_type = "TIMEOUT_24H" =>
                sr.hold_duration_minutes >= TIMEOUT_24H_AT
    /\ sweep.pc = "finished" =>
          \A t \in TimeoutExits :
              \E sr \in simdb.simulation_results : sr.exit_type = t

C23_Step ==
    sim.pc = "loop" =>
        /\ BreachesStop =>
              /\ sim'.pc = "returned" /\ sim'.result # None
              /\ sim'.result[1].exit_type = "SL"
              /\ sim'.result[1].pnl_pct = RNeg(sim.sl_pct)
              /\ sim'.result[1].hold_duration_minutes = sim.idx + 1
              /\ sim'.ts_activated = sim.ts_activated
              /\ sim'.ts_trigger_price = sim.ts_trigger_price
        /\ (~BreachesStop /\ HitsTrailingStop) =>
              /\ sim'.pc = "returned" /\ sim'.result # None
              /\ sim'.result[1].exit_type = "TS"
              /\ sim'.result[1].exit_price = Some(TriggerInForce)
              /\ sim'.result[1].hold_duration_minutes = sim.idx + 1
        /\ (sim'.pc = "returned" /\ sim'.result # None
             /\ sim'.result[1].exit_type \notin {"SL", "TS"}) =>
              ~BreachesStop /\ ~HitsTrailingStop

C23_CheckOrder == [][C23_Step]_vars

\* a stop-loss on the 1260th candle, which also reached the activation
\* percentage with the trailing stop not armed before
C23_Witness ==
    /\ Returned /\ sim.result # None
    /\ Result.exit_type = "SL"
    /\ Result.hold_duration_minutes = TIMEOUT_21H_AT
    /\ RLe(sim.ts_activation_pct, Result.max_profit_pct)
    /\ ~sim.ts_activated

\* a trigger price b is at least as tight toward profit as a
Tightened(a, b) == IF eng.signal_type = "LONG" THEN RLe(a, b) ELSE RLe(b, a)
\* entry * (1 +/- (activation - callback) / 100)
ArmingTrigger ==
    IF eng.signal_type = "LONG"
    THEN RDiv(RMul(CurEntry, RSub(RAdd(R(100), sim.ts_activation_pct),
                                  sim.ts_callback_pct)), R(100))
    ELSE RDiv(RMul(CurEntry, RAdd(RSub(R(100), sim.ts_activation_pct),
                                  sim.ts_callback_pct)), R(100))

\* the candle's best price less the callback: high * (1 - callback/100) for
\* LONG, low * (1 + callback/100) for SHORT
CallbackFromExtreme ==
    IF eng.signal_type = "LONG"
    THEN RDiv(RMul(R(CurCandle.high_price), RSub(R(100), sim.ts_callback_pct)),
              R(100))
    ELSE RDiv(RMul(R(CurCandle.low_price), RAdd(R(100), sim.ts_callback_pct)),
              R(100))

\* C24: the trailing stop arms on the first candle whose best excursion
\* reaches ts_activation_pct, with the trigger entry * (1 + (activation -
\* callback)/100) for LONG and entry * (1 - (activation - callback)/100) for
\* SHORT; once armed it stays armed, and from candle to candle the trigger
\* only tightens (never falls for LONG, never rises for SHORT).
C24_Step ==
    /\ sim'.ts_activated <=> sim'.ts_trigger_price # None
    /\ sim.pc \in {"loop", "fallback"} =>
          /\ sim.ts_activated =>
                /\ sim'.ts_activated
                /\ Tightened(sim.ts_trigger_price[1], sim'.ts_trigger_price[1])
          /\ (sim.pc = "fallback" /\ ~sim.ts_activated) => ~sim'.ts_activated
          /\ (sim.pc = "loop" /\ ~sim.ts_activated /\ ~BreachesStop) =>
                /\ sim'.ts_activated <=> ReachesActivation
                /\ sim'.ts_activated =>
                      /\ Tightened(ArmingTrigger, sim'.ts_trigger_price[1])
                      /\ (sim'.pc = "returned" /\ sim'.result # None
                           /\ sim'.result[1].exit_type = "TS") =>
                              sim'.result[1].exit_price = Some(ArmingTrigger)
                      /\ sim'.pc # "returned" =>
                              sim'.ts_trigger_price[1] =
                                  IF Tightened(ArmingTrigger, CallbackFromExtreme)
                                  THEN CallbackFromExtreme ELSE ArmingTrigger

C24_TrailingStopTightens == [][C24_Step]_vars

\* a LONG position still open whose trailing stop armed on the first candle
\* and whose trigger has since risen above what that candle left
C24_Witness ==
    /\ sim.pc = "loop" /\ sim.ts_activated /\ sim.idx >= 2
    /\ eng.signal_type = "LONG"
    /\ RLe(RMul(CurEntry, RAdd(R(100), sim.ts_activation_pct)),
           RMul(R(Candle(eng.candles, 1).high_price), R(100)))
    /\ RLt(ArmingTrigger, sim.ts_trigger_price[1])
    /\ RLt(RMul(R(Candle(eng.candles, 1).high_price),
                RDiv(RSub(R(100), sim.ts_callback_pct), R(100))),
           sim.ts_trigger_price[1])

C28_NonNegativeOnlyWhen ==
    (Returned /\ sim.result # None /\ Result.exit_type = "TS") =>
        /\ Result.exit_price = sim.ts_trigger_price
        /\ RLe(RSub(sim.ts_activation_pct, sim.ts_callback_pct), Result.pnl_pct)
        /\ RLe(R(0), Result.pnl_pct) =>
               RLe(sim.ts_callback_pct, sim.ts_activation_pct)

\* C28: a trailing-stop exit is at the trigger price in force before the exit
\* candle's own extreme is applied (the arming trigger if the stop armed on
\* that candle, which may therefore arm and trigger at once), its pnl_pct is
\* the P&L of that price and is at least ts_activation_pct - ts_callback_pct,
\* hence non-negative whenever the callback does not exceed the activation;
\* with a larger callback the sign of the P&L is not determined.
C28_Step ==
    (/\ sim.pc = "loop" /\ sim'.pc = "returned" /\ sim'.result # None
     /\ sim'.result[1].exit_type = "TS")
    =>
    (/\ sim'.result[1].exit_price =
            IF sim.ts_activated THEN sim.ts_trigger_price
            ELSE Some(ArmingTrigger)
     /\ sim'.result[1].pnl_pct =
            PnlPct(eng.signal_type, sim'.result[1].exit_price[1], CurEntry)
     /\ RLe(RSub(sim.ts_activation_pct, sim.ts_callback_pct),
            sim'.result[1].pnl_pct)
     /\ RLe(sim.ts_callback_pct, sim.ts_activation_pct) =>
            RLe(R(0), sim'.result[1].pnl_pct)
     /\ ~sim.ts_activated =>
            /\ ReachesActivation
            /\ sim'.result[1].pnl_pct =
                   RSub(sim.ts_activation_pct, sim.ts_callback_pct))

C28_TrailingStopExit == [][C28_Step]_vars

\* a trailing stop that armed and triggered on the first candle, at the
\* arming trigger although the callback from that candle's own extreme is a
\* tighter price
C28_Witness ==
    /\ Returned /\ sim.result # None
    /\ Result.exit_type = "TS"
    /\ Result.hold_duration_minutes = 1
    /\ Result.exit_price = Some(ArmingTrigger)
    /\ Result.pnl_pct = RSub(sim.ts_activation_pct, sim.ts_callback_pct)
    /\ ~Tightened(CallbackFromExtreme, ArmingTrigger)

\* The drawdown from the running best price over the candles 1..m of a call,
\* measured as calculate_trade_result measures it.  A sequence has one shape
\* everywhere but at d.k, so the candles 1, 2, k-1, k, k+1 and m stand for all.
Marks(d, m) == {1, 2, d.k - 1, d.k, d.k + 1, m} \cap (1..m)
MaxInt(S) == CHOOSE x \in S : \A y \in S : y <= x
MinInt(S) == CHOOSE x \in S : \A y \in S : x <= y
RunningBest(d, signal_type, j) ==
    IF signal_type = "LONG"
    THEN MaxInt({Candle(d, 1).open_price}
                \cup {Candle(d, i).high_price : i \in Marks(d, j)})
    ELSE MinInt({Candle(d, 1).open_price}
                \cup {Candle(d, i).low_price : i \in Marks(d, j)})
DrawdownAt(d, signal_type, j) ==
    LET best == RunningBest(d, signal_type, j)
    IN  IF signal_type = "LONG"
        THEN Rat((best - Candle(d, j).low_price) * 100, best)
        ELSE Rat((Candle(d, j).high_price - best) * 100, best)
PeakDrawdown(d, signal_type, m) ==
    LET dd == {R(0)} \cup {DrawdownAt(d, signal_type, j) : j \in Marks(d, m)}
    IN  CHOOSE x \in dd : \A y \in dd : RLe(y, x)

\* C12: the max_drawdown_pct of an outcome is the maximum drawdown from the
\* running best price since entry over the candles held (reported as a
\* magnitude or as a negative percentage), not the worst excursion from entry.
C12_DrawdownFromPeak ==
    (Returned /\ sim.result # None /\ Result.exit_type # "ERROR") =>
        LET dd == PeakDrawdown(eng.candles, eng.signal_type,
                               Result.hold_duration_minutes)
        IN  Result.max_drawdown_pct \in {dd, RNeg(dd)}

(***************************************************************************)
(* Claims about calculate_trade_result                                     *)
(***************************************************************************)
\* the levels and breaches as the claims state them, for a call key
LevelSL(k) ==
    IF k[1] = "LONG"
    THEN RDiv(RMul(calc.entry_price, R(100 - k[2].sl_percent)), R(100))
    ELSE RDiv(RMul(calc.entry_price, R(100 + k[2].sl_percent)), R(100))
LevelTP(k) ==
    IF k[1] = "LONG"
    THEN RDiv(RMul(calc.entry_price, R(100 + k[2].tp_percent)), R(100))
    ELSE RDiv(RMul(calc.entry_price, R(100 - k[2].tp_percent)), R(100))
BreachSL(k, c) ==
    IF k[1] = "LONG" THEN RLe(R(c.low_price), LevelSL(k))
    ELSE RLe(LevelSL(k), R(c.high_price))
BreachTP(k, c) ==
    IF k[1] = "LONG" THEN RLe(LevelTP(k), R(c.high_price))
    ELSE RLe(R(c.low_price), LevelTP(k))
Breaching(k) ==
    {i \in 1..Len(calc.history) :
        BreachSL(k, calc.history[i]) \/ BreachTP(k, calc.history[i])}
\* the earliest candle that breaches a level (0: none does)
FirstBreach(k) ==
    IF Breaching(k) = {} THEN 0
    ELSE CHOOSE i \in Breaching(k) : \A j \in Breaching(k) : i <= j
TieBroken(k) ==
    /\ FirstBreach(k) > 0
    /\ BreachSL(k, calc.history[FirstBreach(k)])
    /\ BreachTP(k, calc.history[FirstBreach(k)])
StopLossOutcome(r, k) ==
    /\ r.close_reason = "stop_loss" /\ r.close_price = LevelSL(k)
    /\ r.is_win = Some(FALSE) /\ r.pnl_percent = R(-k[2].sl_percent)
TakeProfitOutcome(r, k) ==
    /\ r.close_reason = "take_profit" /\ r.close_price = LevelTP(k)
    /\ r.is_win = Some(TRUE) /\ r.pnl_percent = R(k[2].tp_percent)

\* C4: repeated invocations of the exit simulators for the same signal,
\* candles, direction and parameters return the same outcome whatever ran in
\* between, and the tie-break resolves the same way for LONG and SHORT and for
\* every parameter set of the signal.
C4_Deterministic ==
    /\ \A k \in CallKeys : Cardinality(calc.seen[k]) <= 1
    /\ \A k1, k2 \in CallKeys :
          \A r1 \in calc.seen[k1], r2 \in calc.seen[k2] :
              (TieBroken(k1) /\ TieBroken(k2)) =>
                  (r1.close_reason = "stop_loss") = (r2.close_reason = "stop_loss")
    /\ \A i, j \in 1..Len(eng.results) :
          (/\ eng.results[i].sl_pct = eng.results[j].sl_pct
           /\ eng.results[i].ts_activation_pct = eng.results[j].ts_activation_pct
           /\ eng.results[i].ts_callback_pct = eng.results[j].ts_callback_pct)
          => eng.results[i] = eng.results[j]

\* a tie-broken call repeated after another signal reseeded the generator,
\* with the tie-break seen for LONG and for SHORT
C4_Witness ==
    /\ calc.again
    /\ \E k1, k2 \in CallKeys :
          /\ k1[1] = "LONG" /\ k2[1] = "SHORT"
          /\ TieBroken(k1) /\ TieBroken(k2)
          /\ calc.seen[k1] # {} /\ calc.seen[k2] # {}

\* C5: when the first triggering candle breaches both levels, the position
\* closes on that candle as a stop-loss at sl_price (loss of sl_percent) or as
\* a take-profit at tp_price (gain of tp_percent), never open, never mixed.
C5_TieBreakOutcome ==
    \A k \in CallKeys : \A r \in calc.seen[k] :
        TieBroken(k) =>
            /\ r.is_closed
            /\ r.close_time = calc.history[FirstBreach(k)].timestamp
            /\ StopLossOutcome(r, k) \/ TakeProfitOutcome(r, k)

\* a tie-break on a candle after the first, resolved as a stop-loss
C5_Witness ==
    \E k \in CallKeys : \E r \in calc.seen[k] :
        TieBroken(k) /\ FirstBreach(k) > 1 /\ r.close_reason = "stop_loss"

\* C9: when the earliest breaching candle breaches one level only, the
\* position closes there at exactly that level; with no breaching candle the
\* reason is timeout at the last candle's close.
C9_SingleLevelOutcome ==
    \A k \in CallKeys : \A r \in calc.seen[k] :
        LET i == FirstBreach(k)
            last == calc.history[Len(calc.history)]
        IN  /\ (i > 0 /\ ~TieBroken(k)) =>
                  /\ r.close_time = calc.history[i].timestamp
                  /\ IF BreachSL(k, calc.history[i])
                     THEN StopLossOutcome(r, k) ELSE TakeProfitOutcome(r, k)
            /\ i = 0 =>
                  /\ r.close_reason = "timeout"
                  /\ r.close_price = R(last.close_price)

\* a stop-loss on a candle whose low is exactly the level, with a later
\* candle that breaches the take-profit level
C9_Witness ==
    \E k \in CallKeys : \E r \in calc.seen[k] :
        /\ k[1] = "LONG" /\ FirstBreach(k) = 1 /\ ~TieBroken(k)
        /\ R(calc.history[1].low_price) = LevelSL(k)
        /\ \E j \in Breaching(k) : j > 1 /\ BreachTP(k, calc.history[j])
        /\ r.close_reason = "stop_loss"

\* the drawdown measured from entry over the whole history
NaiveDrawdown(k) ==
    LET h == calc.history
        lowest == MinInt({h[i].low_price : i \in 1..Len(h)})
        highest == MaxInt({h[i].high_price : i \in 1..Len(h)})
    IN  IF k[1] = "LONG"
        THEN RMul(RDiv(RSub(calc.entry_price, R(lowest)), calc.entry_price), R(100))
        ELSE RMul(RDiv(RSub(R(highest), calc.entry_price), calc.entry_price), R(100))

\* C13: the max_drawdown_percent of calculate_trade_result is at least the
\* naive drawdown from entry over the same candles, and never negative.
C13_DrawdownAtLeastNaive ==
    \A k \in CallKeys : \A r \in calc.seen[k] :
        /\ RLe(NaiveDrawdown(k), r.max_drawdown_percent)
        /\ RLe(R(0), r.max_drawdown_percent)

\* a drawdown from a peak above entry that exceeds a positive naive one
C13_Witness ==
    \E k \in CallKeys : \E r \in calc.seen[k] :
        /\ RLt(R(0), NaiveDrawdown(k))
        /\ RLt(NaiveDrawdown(k), r.max_drawdown_percent)
        /\ Len(calc.history) > 1

\* the call on the candles up to and including candle j only
CallOnPrefix(k, j) ==
    calculate_trade_result(k[2], k[1], calc.entry_price,
                           SubSeq(calc.history, 1, j), calc.actual_entry_time,
                           calc.scoring_history_id, rng).result

\* C22: the statistics of an exit outcome (best/worst and absolute max/min
\* price, times to max/min, maximum potential profit, maximum drawdown) come
\* from the candles up to and including the closing candle only: the candles
\* after it change no field of the outcome.
C22_StatsStopAtExit ==
    \A k \in CallKeys : \A r \in calc.seen[k] :
        FirstBreach(k) > 0 => r = CallOnPrefix(k, FirstBreach(k))

\* the running best price after candle j of the history: the highest high
\* (LONG) or the lowest low (SHORT) so far, the entry price included
BestAfter(k, j) ==
    IF k[1] = "LONG"
    THEN MaxInt({calc.entry_price[1]}
                \cup {calc.history[i].high_price : i \in 1..j})
    ELSE MinInt({calc.entry_price[1]}
                \cup {calc.history[i].low_price : i \in 1..j})
\* the maximum drawdown once the candles 1..j have been processed
DrawdownAfter(k, j) ==
    IF j = 0 THEN R(0) ELSE CallOnPrefix(k, j).max_drawdown_percent

\* C27: a candle on which the running best price is not positive leaves the
\* maximum drawdown from peak as it was (no division, nothing infinite or
\* undefined in the outcome), while the absolute extremes are still updated
\* by it.
C27_GuardedDrawdown ==
    \A k \in CallKeys : \A r \in calc.seen[k] :
        /\ r = CallOnPrefix(k, Len(calc.history))
        /\ r.max_drawdown_percent[2] > 0
        /\ r.max_drawdown_usd[2] > 0
        /\ \A j \in 1..Len(calc.history) :
              BestAfter(k, j) <= 0 =>
                  /\ DrawdownAfter(k, j) = DrawdownAfter(k, j - 1)
                  /\ CallOnPrefix(k, j).absolute_min_price =
                        R(MinInt({calc.entry_price[1]}
                            \cup {calc.history[i].low_price : i \in 1..j}))
                  /\ CallOnPrefix(k, j).absolute_max_price =
                        R(MaxInt({calc.entry_price[1]}
                            \cup {calc.history[i].high_price : i \in 1..j}))

\* a SHORT call whose first candle left a positive drawdown and whose second
\* candle took the running best price to zero, the lowest price of the call
C27_Witness ==
    \E k \in CallKeys : \E r \in calc.seen[k] :
        /\ k[1] = "SHORT" /\ Len(calc.history) = 2
        /\ BestAfter(k, 1) > 0 /\ BestAfter(k, 2) = 0
        /\ RLt(R(0), r.max_drawdown_percent)
        /\ r.absolute_min_price = R(0)

\* a step that is one call of an exit simulator, or a candle of one
ExitSimulatorStep ==
    calc_call \/ simulate_trade_candle \/ simulate_trade_fallback

\* C15: a call of an exit simulator changes nothing but its return value: the
\* candles, the engine object and the state of the process-wide random
\* generator are after the call what they were before it.
C15_Frame ==
    ExitSimulatorStep =>
        /\ rng' = rng
        /\ calc'.history = calc.history
        /\ eng' = eng

C15_NoSideEffect == [][C15_Frame]_vars

(***************************************************************************)
(* Claims about get_entry_price                                            *)
(***************************************************************************)
\* the bar is invalid in one of the four ways the claim lists
InvalidBar(bar) ==
    \/ bar[1].high_price <= 0
    \/ bar[1].low_price <= 0
    \/ bar[1].high_price < bar[1].low_price
    \/ 2 * (bar[1].high_price - bar[1].low_price) > bar[1].low_price

\* C16: get_entry_price yields no entry price exactly when the entry bar is
\* missing (no row, or the query for it failed) or invalid: high <= 0,
\* low <= 0, high < low or (high - low) / low > 0.5; the outcome of the
\* validation is the same for LONG and SHORT.
C16_NoPriceIffInvalid ==
    /\ \A c \in ent.calls :
          c.result = None <=>
              (c.query_fails \/ ent.bar = None \/ InvalidBar(ent.bar))
    /\ \A c1, c2 \in ent.calls :
          (~c1.query_fails /\ ~c2.query_fails) =>
              ((c1.result = None) <=> (c2.result = None))

\* a bar with a spread of exactly 50% priced for LONG and for SHORT
C16_Witness ==
    /\ ent.bar # None
    /\ 2 * (ent.bar[1].high_price - ent.bar[1].low_price) = ent.bar[1].low_price
    /\ \E c1, c2 \in ent.calls :
          /\ c1.direction = "LONG" /\ c2.direction = "SHORT"
          /\ c1.result # None /\ c2.result # None

\* C17: for a bar that passes validation the entry price is
\* low + 0.75 * (high - low) for LONG and low + 0.25 * (high - low) for SHORT,
\* so low <= SHORT fill <= LONG fill <= high, and entry_time is the bar's
\* timestamp for both directions.
C17_EntryFill ==
    \A c \in ent.calls :
        c.result # None =>
            LET high == ent.bar[1].high_price
                low == ent.bar[1].low_price
                long_fill == Rat(4 * low + 3 * (high - low), 4)
                short_fill == Rat(4 * low + (high - low), 4)
            IN  /\ c.result[1].entry_price =
                      (IF c.direction = "LONG" THEN long_fill ELSE short_fill)
                /\ c.result[1].entry_time = ent.bar[1].timestamp
                /\ RLe(R(low), short_fill) /\ RLe(short_fill, long_fill)
                /\ RLe(long_fill, R(high))

\* both directions priced on a bar with high above low, the SHORT fill
\* strictly below the LONG fill
C17_Witness ==
    \E c1, c2 \in ent.calls :
        /\ c1.direction = "LONG" /\ c2.direction = "SHORT"
        /\ c1.result # None /\ c2.result # None
        /\ RLt(c2.result[1].entry_price, c1.result[1].entry_price)
        /\ c1.result[1].entry_time = c2.result[1].entry_time

(***************************************************************************)
(* Claims about the sweep of simulate_trades.main                          *)
(***************************************************************************)
\* the rows one signal's simulate_signal inserts, and the count it returns
RowsOfSignal(signal) ==
    IF simulate_signal_guard(simdb.candles_1m[signal.signal_id])
       \/ signal.signal_id \in pool.insert_fails
    THEN << >>
    ELSE simulate_batch(signal, simdb.candles_1m[signal.signal_id],
                        pool.param_combos)

\* the signals processed one at a time, in the order of the list
RECURSIVE OneAtATime(_, _, _)
OneAtATime(signals, i, acc) ==
    IF i > Len(signals) THEN acc
    ELSE LET rows == RowsOfSignal(signals[i])
         IN  OneAtATime(signals, i + 1,
                 [table |-> bulk_insert_simulations(acc.table, rows, 1),
                  total |-> acc.total + Len(rows)])

Busy(w) == pool.workers[w].pc # "idle"
TaskSignal(w) == pool.signals[pool.workers[w].task]

C18_Step ==
    /\ (pool'.pc = "done" /\ pool'.runs = 1) =>
          LET seq == OneAtATime(pool'.signals, 1, [table |-> {}, total |-> 0])
          IN  /\ simdb'.simulation_results = seq.table
              /\ pool'.total_results = seq.total
    /\ \A w1, w2 \in Workers :
          (w1 # w2 /\ Busy(w1) /\ Busy(w2)) =>
              TaskSignal(w1).signal_id # TaskSignal(w2).signal_id
    /\ simdb.simulation_results \subseteq simdb'.simulation_results
    /\ simdb'.simulation_results # simdb.simulation_results =>
          \E w \in Workers :
              /\ pool.workers[w].pc = "loaded"
              /\ pool'.workers[w].pc = "returned"
              /\ \A sr \in simdb'.simulation_results \ simdb.simulation_results :
                    sr.signal_id = TaskSignal(w).signal_id
              /\ \A v \in Workers \ {w} : pool'.workers[v] = pool.workers[v]
    /\ simdb'.selected_signals = simdb.selected_signals
    /\ simdb'.candles_1m = simdb.candles_1m

\* C18: whatever the interleaving and completion order of the workers, the
\* rows persisted and the total count of a sweep are those of processing the
\* signals one at a time; a worker writes only rows of its own signal, what
\* the workers read no worker writes, and two workers never hold the same
\* signal, hence never write the same key.
C18_SameAsOneAtATime == [][C18_Step]_vars

\* in the first sweep a worker still holds a signal while the rows of a
\* signal later in the list are already in the table, and the other worker
\* is busy too
C18_Witness ==
    /\ pool.pc = "pool" /\ pool.runs = 1
    /\ \A w \in Workers : Busy(w)
    /\ \E w \in Workers :
          /\ pool.workers[w].pc = "loaded"
          /\ \E t \in 1..Len(pool.signals) :
                /\ t > pool.workers[w].task
                /\ HasResults(simdb, pool.signals[t].signal_id)

\* C20: over successive runs of the pipeline the signals that have
\* simulation results never include two of the same pair whose 24h windows
\* overlap.
C20_NoOverlapAcrossRuns ==
    \A i, j \in DOMAIN simdb.selected_signals :
        LET a == simdb.selected_signals[i]
            b == simdb.selected_signals[j]
        IN  (/\ i # j
             /\ a.pair_symbol = b.pair_symbol
             /\ HasResults(simdb, a.signal_id)
             /\ HasResults(simdb, b.signal_id))
            => ~(/\ a.entry_time < b.entry_time + 24
                 /\ b.entry_time < a.entry_time + 24)

(***************************************************************************)
(* Claims about filter_duplicate_signals                                   *)
(***************************************************************************)
\* C2: for any input list (any order, any mix of pairs and entry times, equal
\* entry times included) the returned list holds no two signals of the same
\* pair whose windows [entry_time, entry_time + 24h) overlap.
C2_NoOverlap ==
    flt.pc = "done" =>
        \A i, j \in 1..Len(flt.filtered) :
            (/\ i # j
             /\ flt.filtered[i].pair_symbol = flt.filtered[j].pair_symbol)
            => ~(/\ flt.filtered[i].entry_time < flt.filtered[j].entry_time + 24
                 /\ flt.filtered[j].entry_time < flt.filtered[i].entry_time + 24)

\* an unsorted input with two signals of one pair at the same entry time, one
\* of them rejected, and two signals of that pair accepted 24h apart
C2_Witness ==
    /\ flt.pc = "done"
    /\ flt.tracker.filtered_count > 0
    /\ \E i, j \in 1..Len(flt.signals) :
          i < j /\ flt.signals[j].entry_time < flt.signals[i].entry_time
    /\ \E i, j \in 1..Len(flt.signals) :
          /\ i # j
          /\ flt.signals[i].pair_symbol = flt.signals[j].pair_symbol
          /\ flt.signals[i].entry_time = flt.signals[j].entry_time
    /\ \E i, j \in 1..Len(flt.filtered) :
          /\ flt.filtered[i].pair_symbol = flt.filtered[j].pair_symbol
          /\ flt.filtered[j].entry_time = flt.filtered[i].entry_time + 24

\* the input rows of one pair, and the sets of them whose 24h windows
\* [entry_time, entry_time + 24h) are pairwise disjoint
RowsOfPair(pair) ==
    {i \in 1..Len(flt.signals) : flt.signals[i].pair_symbol = pair}
WindowsDisjoint(S) ==
    \A i, j \in S :
        i # j => \/ flt.signals[i].entry_time + POSITION_HOURS
                       <= flt.signals[j].entry_time
                 \/ flt.signals[j].entry_time + POSITION_HOURS
                       <= flt.signals[i].entry_time
Schedules(pair) == {S \in SUBSET RowsOfPair(pair) : WindowsDisjoint(S)}
MaxSchedule(pair) == MaxInt({Cardinality(S) : S \in Schedules(pair)})
AcceptedRows(pair) ==
    {i \in 1..Len(flt.filtered) : flt.filtered[i].pair_symbol = pair}

\* C29: for every input list and every pair, the number of signals of the
\* pair that filter_duplicate_signals accepts equals the largest size of a
\* set of that pair's signals with pairwise disjoint 24h windows.
C29_GreedyIsMaximum ==
    flt.pc = "done" =>
        \A pair \in Pairs :
            Cardinality(AcceptedRows(pair)) = MaxSchedule(pair)

\* three signals of one pair given out of chronological order, two accepted
\* and one rejected, where another set of two with disjoint windows exists
\* that the scan did not choose
C29_Witness ==
    /\ flt.pc = "done"
    /\ \E i, j \in 1..Len(flt.signals) :
          i < j /\ flt.signals[j].entry_time < flt.signals[i].entry_time
    /\ \E pair \in Pairs :
          /\ Cardinality(RowsOfPair(pair)) = 3
          /\ Cardinality(AcceptedRows(pair)) = 2
          /\ \E S \in Schedules(pair) :
                /\ Cardinality(S) = 2
                /\ S # {flt.filtered[i].id : i \in AcceptedRows(pair)}

\* every reordering of the input list
Reorderings(signals) ==
    LET n == Len(signals)
    IN  {[i \in 1..n |-> signals[q[i]]] :
            q \in {f \in [1..n -> 1..n] : \A i, j \in 1..n : i # j => f[i] # f[j]}}
AcceptedKeys(filtered) ==
    {<<filtered[i].pair_symbol, filtered[i].entry_time>> :
        i \in 1..Len(filtered)}
AcceptedIds(filtered) == {filtered[i].id : i \in 1..Len(filtered)}
\* another row of the input has the pair and the entry time of row id
TiedRow(id) ==
    \E j \in 1..Len(flt.signals) :
        /\ flt.signals[j].id # id
        /\ flt.signals[j].pair_symbol = flt.signals[id].pair_symbol
        /\ flt.signals[j].entry_time = flt.signals[id].entry_time

\* C30: filter_duplicate_signals gives, for every reordering of its input
\* list, the same accepted (pair_symbol, entry_time) pairs and the same
\* filtered count; the accepted rows themselves differ between two orders
\* only in rows that share pair and entry_time with another row.
C30_OrderIndependent ==
    flt.pc = "done" =>
        \A other \in Reorderings(flt.signals) :
            LET r == filter_duplicate_signals_of(other)
            IN  /\ AcceptedKeys(r.filtered) = AcceptedKeys(flt.filtered)
                /\ Len(r.filtered) = Len(flt.filtered)
                /\ r.tracker.filtered_count = flt.tracker.filtered_count
                /\ r.tracker.active_positions = flt.tracker.active_positions
                /\ \A id \in (AcceptedIds(r.filtered) \ AcceptedIds(flt.filtered))
                          \cup (AcceptedIds(flt.filtered) \ AcceptedIds(r.filtered)) :
                       TiedRow(id)

\* an input given out of chronological order with a rejected signal, and two
\* rows of one pair at the same entry time of which a reordering accepts the
\* other one
C30_Witness ==
    /\ flt.pc = "done"
    /\ flt.tracker.filtered_count > 0
    /\ \E i, j \in 1..Len(flt.signals) :
          i < j /\ flt.signals[j].entry_time < flt.signals[i].entry_time
    /\ \E other \in Reorderings(flt.signals) :
          AcceptedIds(filter_duplicate_signals_of(other).filtered)
              # AcceptedIds(flt.filtered)

\* the scan after the first i signals of the sorted input
SignalsSorted == sorted_by_entry_time(flt.signals)
ScanState(i) ==
    filter_loop(SubSeq(SignalsSorted, 1, i), 1, PositionTracker, << >>)
Tracked(i) == ScanState(i).tracker.active_positions

\* C14: in the chronological scan a signal is accepted iff its pair has no
\* tracked exit time or its entry_time >= that exit time; on acceptance only
\* that pair's tracked exit time changes, to entry_time + 24h; a rejection
\* changes no tracked exit time.
C14_ScanStep ==
    flt.pc = "done" =>
        /\ flt.filtered = ScanState(Len(SignalsSorted)).filtered
        /\ flt.tracker = ScanState(Len(SignalsSorted)).tracker
        /\ \A i \in 1..Len(SignalsSorted) :
              LET signal == SignalsSorted[i]
                  pair == signal.pair_symbol
                  before == Tracked(i - 1)
                  after == Tracked(i)
                  accepted ==
                      ScanState(i).filtered =
                          Append(ScanState(i - 1).filtered, signal)
                  rejected ==
                      ScanState(i).filtered = ScanState(i - 1).filtered
              IN  /\ accepted \/ rejected
                  /\ accepted <=> (\/ pair \notin DOMAIN before
                                   \/ signal.entry_time >= before[pair])
                  /\ accepted =>
                        /\ DOMAIN after = DOMAIN before \cup {pair}
                        /\ after[pair] = signal.entry_time + 24
                        /\ \A p \in DOMAIN before \ {pair} :
                              after[p] = before[p]
                  /\ rejected => after = before

\* one pair with an entry accepted at 0, one rejected 10h later and one
\* accepted exactly 24h after the first
C14_Witness ==
    /\ flt.pc = "done"
    /\ \E i, j, l \in 1..Len(SignalsSorted) :
          /\ i < j /\ j < l
          /\ SignalsSorted[i].pair_symbol = SignalsSorted[j].pair_symbol
          /\ SignalsSorted[j].pair_symbol = SignalsSorted[l].pair_symbol
          /\ SignalsSorted[i].entry_time = 0
          /\ SignalsSorted[j].entry_time = 10
          /\ SignalsSorted[l].entry_time = 24
          /\ Len(flt.filtered) = 2
          /\ flt.tracker.filtered_count = 1
          /\ flt.tracker.active_positions[SignalsSorted[l].pair_symbol] = 48

(***************************************************************************)
(* Claims about ImprovedScoringAnalyzer.run                                *)
(***************************************************************************)
RowsOf(table, id, direction) ==
    {x \in table : x.scoring_history_id = id /\ x.signal_type = direction}

\* C6: when run finishes, every signal it fetched has exactly one row per
\* (scoring_history_id, direction), whatever happened to the signal.
C6_OneRowPerKey ==
    run.pc = "done" =>
        \A id \in run.fetched : \A direction \in Directions :
            Cardinality(RowsOf(db.results, id, direction)) = 1

\* the entry bar passes the checks of the claim: present, positive prices,
\* high >= low, spread at most 50%
ValidEntryBar(bar) ==
    /\ bar # None
    /\ bar[1].high_price > 0 /\ bar[1].low_price > 0
    /\ bar[1].high_price >= bar[1].low_price
    /\ 2 * (bar[1].high_price - bar[1].low_price) <= bar[1].low_price

Sentinel(id, direction, reason) ==
    [scoring_history_id |-> id, signal_type |-> direction,
     entry_price |-> None, close_price |-> None, is_closed |-> FALSE,
     close_reason |-> reason, is_win |-> None, pnl_percent |-> R(0)]

SentinelPair(l, reason) ==
    /\ l.long = Some(Sentinel(l.scoring_history_id, "LONG", reason))
    /\ l.short = Some(Sentinel(l.scoring_history_id, "SHORT", reason))

Analysing == run.pc = "loop" /\ run.i <= Len(run.signals)

C7_Step ==
    /\ Analysing =>
          LET l == run'.last[1]
              d == db.scoring_history[l.scoring_history_id]
          IN  /\ ~ValidEntryBar(d.bar) => SentinelPair(l, "no_entry_price")
              /\ (/\ ValidEntryBar(d.bar)
                  /\ l.faults.history_query = ""
                  /\ d.n < (AnalysisConfig.analysis_hours * 12 * 3) \div 4)
                 => SentinelPair(l, IF l.faults.entry_query
                                    THEN "no_entry_price"
                                    ELSE "insufficient_history")
    /\ (run.pc = "fetch" /\ run'.pc = "loop") =>
          \A j \in 1..Len(run'.signals) :
              ~\E x \in db.results : x.scoring_history_id = run'.signals[j]

\* C7: a signal with no valid entry bar, or with fewer than
\* int(analysis_hours * 12 * 0.75) history candles, yields a sentinel for LONG
\* and one for SHORT, and a signal with a saved row is never selected again.
C7_SentinelsNotRetried == [][C7_Step]_vars

\* both sentinels of signal 1 (no entry price) and of signal 2 (insufficient
\* history) are saved, and the batch selected after that holds neither
C7_Witness ==
    /\ run.pc = "loop" /\ run.signals # << >>
    /\ \A j \in 1..Len(run.signals) : run.signals[j] \notin {1, 2}
    /\ \A direction \in Directions :
          /\ Sentinel(1, direction, "no_entry_price") \in db.results
          /\ Sentinel(2, direction, "insufficient_history") \in db.results

C8_Step ==
    Analysing =>
        LET l == run'.last[1]
        IN  /\ l.exc \in {"psycopg.Error", "KeyError", "ValueError", "TypeError"}
                => /\ run'.pc = "loop" /\ run'.i = run.i + 1
                   /\ run'.signals = run.signals
                   /\ l.long = None /\ l.short = None
                   /\ ~\E x \in db'.results :
                          x.scoring_history_id = l.scoring_history_id
                   /\ ~\E j \in 1..Len(run'.results) :
                          run'.results[j].scoring_history_id = l.scoring_history_id
            /\ run'.pc = "aborted" <=> l.exc = "Exception"

C25_RunTerminates == <>(run.pc \in {"done", "aborted"})

====
